---- MODULE Spec2Model ----
(***************************************************************************)
(* Model of gtf-reflected-router: the Route decorator and its metadata     *)
(* registry, controllerPlugin, the parameter decorators, the plugin and    *)
(* hook decorators, the CronJob decorator with its cron-expression         *)
(* validator, and the retry/timeout executor executeCronJobSafely.         *)
(*                                                                         *)
(* Strings the code inspects character by character (cron expressions,     *)
(* HTTP method names, route paths) are sequences of one-character strings. *)
(***************************************************************************)
EXTENDS Integers, Sequences, FiniteSets, TLC

VARIABLES
    expression,     \* cron: the string handed to validateCronExpression
    cronFields,     \* cron: the field descriptors the string was written from
    cronResult,     \* cron: outcome of validateCronExpression, or pending
    routesMeta,     \* routes: the metadata each class owns under ROUTES_METADATA_KEY
    routeCall,      \* routes: the last application of the Route decorator
    routeThrown,    \* routes: the error that application threw, or "none"
    cronJobsMeta,   \* jobs: the metadata each class owns under CRON_JOBS_METADATA_KEY
    cronJobCall,    \* jobs: the last application of the CronJob decorator
    cronJobThrown,  \* jobs: the error that application threw, or "none"
    job,            \* executor: the job descriptor's options and the handler's type
    pc,             \* executor: where executeCronJobSafely stands
    attempt,        \* executor: the loop variable
    execution,      \* executor: the caller's execution record
    invocations,    \* executor: the handler invocations made, each pending or settled
    timers,         \* executor: the timeout timers set, each armed or fired
    caught,         \* executor: the error last caught by the catch block
    calls,          \* executor: the callbacks and handler calls made, in order
    outcome,        \* executor: what the caller's promise settled with
    parked,         \* executor: a second call for the same job, while the first runs
    fastify,        \* plugin: the last run of controllerPlugin and its fastify.route calls
    paramsMeta,     \* params: the parameter-index lists objects own, per key and method
    decorated,      \* params: the parameter decorations applied so far
    pluginMeta,     \* hooks: the metadata each class owns under PLUGIN_METADATA_KEY
    hooksMeta,      \* hooks: per hook key, the array each class owns, by reference
    hookArrays,     \* hooks: the arrays of hook records allocated so far
    hookLog         \* hooks: the applications of the hook decorators, in order

cronVars == <<expression, cronFields, cronResult>>

routeVars == <<routesMeta, routeCall, routeThrown>>

jobVars == <<cronJobsMeta, cronJobCall, cronJobThrown>>

execVars == <<job, pc, attempt, execution, invocations, timers, caught, calls, outcome,
              parked>>

pluginVars == <<fastify>>

paramVars == <<paramsMeta, decorated>>

hookVars == <<pluginMeta, hooksMeta, hookArrays, hookLog>>

vars == <<expression, cronFields, cronResult, routesMeta, routeCall, routeThrown,
          cronJobsMeta, cronJobCall, cronJobThrown,
          job, pc, attempt, execution, invocations, timers, caught, calls, outcome,
          parked, fastify, paramsMeta, decorated,
          pluginMeta, hooksMeta, hookArrays, hookLog>>

-----------------------------------------------------------------------------
(* Bounds of the model *)

\* Expressions have 0..MaxFields whitespace-separated fields.
MaxFields == 7

\* Comma lists have 2..MaxList elements.
MaxList == 2

\* Route records stored over all classes before registration stops.
MaxRoutes == 2

\* Jobs have retryAttempts in 0..MaxRetry.
MaxRetry == 2

\* Parameter decorations applied over all classes and methods.
MaxParams == 3

\* Applications of the hook decorators over all classes and methods.
MaxHooks == 3

-----------------------------------------------------------------------------
(* JavaScript string and number primitives used by the validator *)

DigitChars == <<"0", "1", "2", "3", "4", "5", "6", "7", "8", "9">>

IsDigit(c) == \E i \in 1..10 : DigitChars[i] = c

DigitValue(c) == (CHOOSE i \in 1..10 : DigitChars[i] = c) - 1

\* Characters matched by \s (the subset the model writes: space and tab).
IsWhitespace(c) == c \in {" ", "\t"}

Includes(s, c) == \E i \in 1..Len(s) : s[i] = c

\* String.prototype.trim
RECURSIVE Trim(_)
Trim(s) ==
    IF s = <<>> THEN s
    ELSE IF IsWhitespace(s[1]) THEN Trim(Tail(s))
    ELSE IF IsWhitespace(s[Len(s)]) THEN Trim(SubSeq(s, 1, Len(s) - 1))
    ELSE s

\* String.prototype.split with a one-character separator
RECURSIVE Split(_, _)
Split(s, sep) ==
    IF ~Includes(s, sep) THEN <<s>>
    ELSE LET k == CHOOSE i \in 1..Len(s) :
                    s[i] = sep /\ \A j \in 1..(i - 1) : s[j] # sep
         IN <<SubSeq(s, 1, k - 1)>> \o Split(SubSeq(s, k + 1, Len(s)), sep)

\* String.prototype.split(/\s+/): cut at every maximal run of whitespace
RECURSIVE SplitWhitespace(_)
SplitWhitespace(s) ==
    IF \A i \in 1..Len(s) : ~IsWhitespace(s[i]) THEN <<s>>
    ELSE LET k == CHOOSE i \in 1..Len(s) :
                    IsWhitespace(s[i]) /\ \A j \in 1..(i - 1) : ~IsWhitespace(s[j])
             rest == SubSeq(s, k + 1, Len(s))
             RECURSIVE SkipWs(_)
             SkipWs(t) == IF t # <<>> /\ IsWhitespace(t[1]) THEN SkipWs(Tail(t)) ELSE t
         IN <<SubSeq(s, 1, k - 1)>> \o SplitWhitespace(SkipWs(rest))

RECURSIVE DigitsValue(_)
DigitsValue(s) ==
    IF s = <<>> THEN 0
    ELSE 10 * DigitsValue(SubSeq(s, 1, Len(s) - 1)) + DigitValue(s[Len(s)])

AllDigits(s) == \A i \in 1..Len(s) : IsDigit(s[i])

\* A JavaScript number: NaN, or an integer value.
NaN == [nan |-> TRUE, val |-> 0]

Num(v) == [nan |-> FALSE, val |-> v]

\* Number(string): the empty (or blank) string is 0, an optionally signed run
\* of decimal digits is its value, anything else over the model's alphabet is NaN.
Number(s) ==
    LET t == Trim(s)
    IN IF t = <<>> THEN Num(0)
       ELSE IF AllDigits(t) THEN Num(DigitsValue(t))
       ELSE IF Len(t) > 1 /\ t[1] = "-" /\ AllDigits(Tail(t)) THEN Num(0 - DigitsValue(Tail(t)))
       ELSE IF Len(t) > 1 /\ t[1] = "+" /\ AllDigits(Tail(t)) THEN Num(DigitsValue(Tail(t)))
       ELSE NaN

\* isNaN(x)
isNaN(x) == x.nan

\* !x for a number x: true of 0 and of NaN
Falsy(x) == x.nan \/ x.val = 0

\* x >= y and x <= y on JavaScript numbers: false when either is NaN
Geq(x, y) == ~x.nan /\ ~y.nan /\ x.val >= y.val

Leq(x, y) == ~x.nan /\ ~y.nan /\ x.val <= y.val

MapNumber(strs) == [i \in DOMAIN strs |-> Number(strs[i])]

-----------------------------------------------------------------------------
(* validateCronExpression and isValidCronPart *)

isValidCronPart(part, min, max) ==
    IF part = <<"*">> THEN TRUE
    ELSE IF part = <<"?">> THEN TRUE
    ELSE IF Includes(part, "-") THEN
        LET nums  == MapNumber(Split(part, "-"))
            start == nums[1]
            endv  == nums[2]
        IN IF Falsy(start) \/ Falsy(endv) THEN FALSE
           ELSE /\ ~isNaN(start) /\ ~isNaN(endv)
                /\ Geq(start, Num(min)) /\ Leq(endv, Num(max)) /\ Leq(start, endv)
    ELSE IF Includes(part, "/") THEN
        LET pieces  == Split(part, "/")
            range   == pieces[1]
            step    == pieces[2]
            stepNum == Number(step)
        IN IF isNaN(stepNum) \/ Leq(stepNum, Num(0)) THEN FALSE
           ELSE IF range = <<>> THEN FALSE
           ELSE IF range = <<"*">> THEN TRUE
           ELSE IF Includes(range, "-") THEN
               LET nums  == MapNumber(Split(range, "-"))
                   start == nums[1]
                   endv  == nums[2]
               IN IF Falsy(start) \/ Falsy(endv) THEN FALSE
                  \* Number(Number) is NaN, so !isNaN(Number(Number)) is false
                  ELSE /\ ~isNaN(NaN) /\ ~isNaN(endv)
                       /\ Geq(start, Num(min)) /\ Leq(endv, Num(max))
           ELSE LET rangeNum == Number(range)
                IN ~isNaN(rangeNum) /\ Geq(rangeNum, Num(min)) /\ Leq(rangeNum, Num(max))
    ELSE IF Includes(part, ",") THEN
        LET values == MapNumber(Split(part, ","))
        IN \A i \in DOMAIN values :
              ~isNaN(values[i]) /\ Geq(values[i], Num(min)) /\ Leq(values[i], Num(max))
    ELSE LET value == Number(part)
         IN ~isNaN(value) /\ Geq(value, Num(min)) /\ Leq(value, Num(max))

\* A validator table whose week starts at 1.
baseValidators_WeekFromOne ==
    << [name |-> "minuto",        min |-> 0, max |-> 59],
       [name |-> "hora",          min |-> 0, max |-> 23],
       [name |-> "dia",           min |-> 1, max |-> 31],
       [name |-> "mes",           min |-> 1, max |-> 12],
       [name |-> "dia-da-semana", min |-> 1, max |-> 7] >>

\* const validators = [...]
baseValidators ==
    << [name |-> "minuto",        min |-> 0, max |-> 59],
       [name |-> "hora",          min |-> 0, max |-> 23],
       [name |-> "dia",           min |-> 1, max |-> 31],
       [name |-> "mes",           min |-> 1, max |-> 12],
       [name |-> "dia-da-semana", min |-> 0, max |-> 7] >>

\* The optional second taken as the last field instead of the first.
validatorsFor_SecondLast(parts) ==
    IF Len(parts) = 6
    THEN baseValidators \o <<[name |-> "segundo", min |-> 0, max |-> 59]>>
    ELSE baseValidators

\* if (parts.length === 6) validators.unshift({segundo 0-59})
validatorsFor(parts) ==
    IF Len(parts) = 6
    THEN <<[name |-> "segundo", min |-> 0, max |-> 59]>> \o baseValidators
    ELSE baseValidators

CronOk == [status |-> "ok", error |-> "none", field |-> "none", index |-> 0]

CronError(kind, name, i) == [status |-> "error", error |-> kind, field |-> name, index |-> i]

\* validateCronExpression(expression): CronOk when it returns, the error it
\* throws otherwise (parts.forEach throws at the first invalid part).
validateCronExpression(expr) ==
    IF expr = <<>> THEN CronError("required", "none", 0)
    ELSE LET cleanExpression == Trim(expr)
         IN IF cleanExpression = <<>> THEN CronError("empty", "none", 0)
            ELSE LET parts      == SplitWhitespace(cleanExpression)
                     validators == validatorsFor(parts)
                     bad == {i \in 1..Len(parts) :
                                ~isValidCronPart(parts[i], validators[i].min, validators[i].max)}
                 IN IF Len(parts) < 5 \/ Len(parts) > 6
                    THEN CronError("parts", "none", 0)
                    ELSE IF bad = {} THEN CronOk
                    ELSE LET first == CHOOSE i \in bad : \A j \in bad : i <= j
                         IN CronError("part", validators[first].name, first)

-----------------------------------------------------------------------------
(* Cron expressions handed to the validator *)

\* A token of a field: a number, nothing at all, a letter, or the star.
NumTok(n) == [t |-> "num", n |-> n]

EmptyTok == [t |-> "empty", n |-> 0]

AlphaTok == [t |-> "alpha", n |-> 0]

StarTok == [t |-> "star", n |-> 0]

\* A field as its author means it: its shape and its tokens.
Field(kind, toks) == [kind |-> kind, toks |-> toks]

StarField == Field("star", <<>>)

ValueField(n) == Field("value", <<NumTok(n)>>)

SeqsOfLen(S, n) == [1..n -> S]

ValueToks == {NumTok(n) : n \in {-1, 0, 1, 5, 7, 8, 12, 13, 23, 24, 31, 32, 59, 60}} \cup {AlphaTok}

RangeToks == {NumTok(n) : n \in {0, 1, 5, 23, 60}} \cup {EmptyTok, AlphaTok}

StepBaseToks == {NumTok(n) : n \in {0, 5, 60}} \cup {StarTok, EmptyTok, AlphaTok}

StepToks == {NumTok(n) : n \in {-1, 0, 2}} \cup {EmptyTok, AlphaTok}

ListToks == {NumTok(n) : n \in {0, 5, 60}} \cup {EmptyTok, AlphaTok}

FieldInputs ==
    {StarField, Field("question", <<>>)}
    \cup {Field("value", <<a>>) : a \in ValueToks}
    \cup {Field("range", <<a, b>>) : a \in RangeToks, b \in RangeToks}
    \cup {Field("step", <<a, b>>) : a \in StepBaseToks, b \in StepToks}
    \cup {Field("rangestep", <<a, b, NumTok(c)>>) :
             a \in {NumTok(1), NumTok(5)}, b \in {NumTok(1), NumTok(5)}, c \in {0, 2}}
    \cup UNION {{Field("list", l) : l \in SeqsOfLen(ListToks, n)} : n \in 2..MaxList}

RECURSIVE NatToString(_)
NatToString(n) ==
    IF n < 10 THEN <<DigitChars[n + 1]>>
    ELSE NatToString(n \div 10) \o <<DigitChars[(n % 10) + 1]>>

WriteTok(tok) ==
    CASE tok.t = "num"   -> IF tok.n < 0 THEN <<"-">> \o NatToString(0 - tok.n)
                            ELSE NatToString(tok.n)
      [] tok.t = "empty" -> <<>>
      [] tok.t = "alpha" -> <<"a">>
      [] tok.t = "star"  -> <<"*">>

RECURSIVE JoinWith(_, _)
JoinWith(strs, sep) ==
    IF strs = <<>> THEN <<>>
    ELSE IF Len(strs) = 1 THEN strs[1]
    ELSE strs[1] \o sep \o JoinWith(Tail(strs), sep)

WriteField(f) ==
    CASE f.kind = "star"      -> <<"*">>
      [] f.kind = "question"  -> <<"?">>
      [] f.kind = "value"     -> WriteTok(f.toks[1])
      [] f.kind = "range"     -> WriteTok(f.toks[1]) \o <<"-">> \o WriteTok(f.toks[2])
      [] f.kind = "step"      -> WriteTok(f.toks[1]) \o <<"/">> \o WriteTok(f.toks[2])
      [] f.kind = "rangestep" -> WriteTok(f.toks[1]) \o <<"-">> \o WriteTok(f.toks[2])
                                    \o <<"/">> \o WriteTok(f.toks[3])
      [] f.kind = "list"      -> JoinWith([i \in DOMAIN f.toks |-> WriteTok(f.toks[i])], <<",">>)

Layouts == {"plain", "padded", "wide"}

\* The expression string: the fields separated by whitespace.
WriteExpression(fields, layout) ==
    LET strs == [i \in DOMAIN fields |-> WriteField(fields[i])]
    IN CASE layout = "plain"  -> JoinWith(strs, <<" ">>)
         [] layout = "padded" -> <<" ">> \o JoinWith(strs, <<" ">>) \o <<"\t", " ">>
         [] layout = "wide"   -> JoinWith(strs, <<" ", "\t">>)

CronPending == [status |-> "pending", error |-> "none", field |-> "none", index |-> 0]

-----------------------------------------------------------------------------
(* The validator as the CronJob decorator runs it *)

\* CronJob(expression, ...) applied to a method: validateCronExpression(expression)
ValidateCron ==
    /\ cronResult.status = "pending"
    /\ cronResult' = validateCronExpression(expression)
    /\ UNCHANGED <<expression, cronFields>>
    /\ UNCHANGED <<routeVars, jobVars, execVars, pluginVars, paramVars, hookVars>>

-----------------------------------------------------------------------------
(* The Route decorator and its metadata registry (src/src/index.ts) *)

\* JavaScript values handed in as method and path: a string or undefined.
Str(chars) == [type |-> "string", chars |-> chars]

Undefined == [type |-> "undefined", chars |-> <<>>]

LowerChars ==
    << "a", "b", "c", "d", "e", "f", "g", "h", "i", "j", "k", "l", "m",
       "n", "o", "p", "q", "r", "s", "t", "u", "v", "w", "x", "y", "z" >>

UpperChars ==
    << "A", "B", "C", "D", "E", "F", "G", "H", "I", "J", "K", "L", "M",
       "N", "O", "P", "Q", "R", "S", "T", "U", "V", "W", "X", "Y", "Z" >>

\* The upper-case form of each lower-case letter.
UpperOf == [c \in {LowerChars[k] : k \in 1..26} |->
               UpperChars[CHOOSE k \in 1..26 : LowerChars[k] = c]]

\* String.prototype.toUpperCase
toUpperCase(s) == [i \in DOMAIN s |-> IF s[i] \in DOMAIN UpperOf THEN UpperOf[s[i]] ELSE s[i]]

\* String.prototype.startsWith with a one-character prefix
startsWith(s, c) == Len(s) >= 1 /\ s[1] = c

\* Object.values(HTTP_METHODS)
HTTP_METHODS ==
    { <<"G", "E", "T">>, <<"P", "O", "S", "T">>, <<"P", "U", "T">>,
      <<"D", "E", "L", "E", "T", "E">>, <<"P", "A", "T", "C", "H">>,
      <<"H", "E", "A", "D">>, <<"O", "P", "T", "I", "O", "N", "S">> }

\* A method list that lost its last two entries.
isValidHttpMethod_Short(method) ==
    method \in HTTP_METHODS \ {<<"H", "E", "A", "D">>, <<"O", "P", "T", "I", "O", "N", "S">>}

isValidHttpMethod(method) == method \in HTTP_METHODS

\* The classes: B extends A, so B's constructor has A's as its prototype.
Classes == {"A", "B"}

ParentOf(c) == IF c = "B" THEN "A" ELSE "none"

NoMetadata == [defined |-> FALSE, value |-> <<>>]

\* Reflect.getMetadata(key, target): the target's own metadata, else the
\* metadata of the nearest class up the prototype chain that has some.
RECURSIVE ReflectGetMetadata(_, _)
ReflectGetMetadata(meta, target) ==
    IF target = "none" THEN NoMetadata
    ELSE IF meta[target].defined THEN meta[target]
    ELSE ReflectGetMetadata(meta, ParentOf(target))

\* A registry that keeps one value for all classes.
ReflectDefineMetadata_OnEveryClass(meta, value, target) ==
    [c \in DOMAIN meta |-> [defined |-> TRUE, value |-> value]]

\* Reflect.defineMetadata(key, value, target)
ReflectDefineMetadata(meta, value, target) ==
    [meta EXCEPT ![target] = [defined |-> TRUE, value |-> value]]

\* metadata ?? []
OrEmpty(m) == IF m.defined THEN m.value ELSE <<>>

getRoutesIn(meta, target) == OrEmpty(ReflectGetMetadata(meta, target))

\* getRoutes(target)
getRoutes(target) == getRoutesIn(routesMeta, target)

\* A duplicate test that also compares the handler name.
IsDuplicateRoute_SameHandler(existingRoutes, call) ==
    \E i \in 1..Len(existingRoutes) :
        /\ existingRoutes[i].method = toUpperCase(call.method.chars)
        /\ existingRoutes[i].path = call.path.chars
        /\ existingRoutes[i].handler = call.propertyKey

\* existingRoutes.find(route => route.method === method.toUpperCase() && route.path === path)
IsDuplicateRoute(existingRoutes, call) ==
    \E i \in 1..Len(existingRoutes) :
        /\ existingRoutes[i].method = toUpperCase(call.method.chars)
        /\ existingRoutes[i].path = call.path.chars

\* An arguments check that forgets the descriptor.
RouteArgumentError_NoDescriptorCheck(call) ==
    IF call.method.type # "string" \/ call.method.chars = <<>> THEN "method-required"
    ELSE IF ~isValidHttpMethod(toUpperCase(call.method.chars)) THEN "method-unsupported"
    ELSE IF call.path.type # "string" THEN "path-required"
    ELSE IF ~startsWith(call.path.chars, "/") THEN "path-no-slash"
    ELSE "none"

\* The checks of the decorator before its try block: the error thrown, or "none".
RouteArgumentError(call) ==
    IF call.method.type # "string" \/ call.method.chars = <<>> THEN "method-required"
    ELSE IF ~isValidHttpMethod(toUpperCase(call.method.chars)) THEN "method-unsupported"
    ELSE IF call.path.type # "string" THEN "path-required"
    ELSE IF ~startsWith(call.path.chars, "/") THEN "path-no-slash"
    ELSE IF call.valueType # "function" THEN "not-a-method"
    ELSE "none"

\* A record that keeps the method as it was written.
NewRoute_AsWritten(call) ==
    [method  |-> call.method.chars,
     path    |-> call.path.chars,
     handler |-> call.propertyKey,
     options |-> call.options]

\* const newRoute = {method: method.toUpperCase(), path, handler, options}
NewRoute(call) ==
    [method  |-> toUpperCase(call.method.chars),
     path    |-> call.path.chars,
     handler |-> call.propertyKey,
     options |-> call.options]

\* The error the whole decorator throws on this call, or "none".
RouteError(meta, call) ==
    LET argumentError == RouteArgumentError(call)
    IN IF argumentError # "none" THEN argumentError
       ELSE IF IsDuplicateRoute(getRoutesIn(meta, call.cls), call) THEN "duplicate-route"
       ELSE "none"

StoredRoutes == Len(routesMeta["A"].value) + Len(routesMeta["B"].value)

NoCall ==
    [cls |-> "none", method |-> Undefined, path |-> Undefined, options |-> "undefined",
     propertyKey |-> "none", valueType |-> "undefined"]

\* Route(method, path, options)(target, propertyKey, descriptor), with
\* target.constructor = call.cls: the decorator runs to its return or throw.
Route(call) ==
    LET error == RouteError(routesMeta, call)
    IN /\ routeCall = NoCall
       /\ error = "none" => StoredRoutes < MaxRoutes
       /\ routeCall' = call
       /\ routeThrown' = error
       /\ routesMeta' =
             IF error = "none"
             THEN ReflectDefineMetadata(routesMeta,
                      Append(getRoutesIn(routesMeta, call.cls), NewRoute(call)), call.cls)
             ELSE routesMeta
       /\ UNCHANGED <<cronVars, jobVars, execVars, pluginVars, paramVars, hookVars>>

\* The caller goes on after the decorator returned or threw.
RouteReturns ==
    /\ routeCall # NoCall
    /\ routeCall' = NoCall
    /\ routeThrown' = "none"
    /\ UNCHANGED routesMeta
    /\ UNCHANGED <<cronVars, jobVars, execVars, pluginVars, paramVars, hookVars>>

-----------------------------------------------------------------------------
(* Applications of Route the model makes *)

RouteCallOf(cls, method, path, options, propertyKey, valueType) ==
    [cls |-> cls, method |-> method, path |-> path, options |-> options,
     propertyKey |-> propertyKey, valueType |-> valueType]

MemberInputs == {<<"m1", "undefined">>, <<"m2", "opts1">>}

WellFormedCalls ==
    {RouteCallOf(c, Str(m), Str(<<"/", "a">>), "undefined", "m1", "function") :
        c \in Classes, m \in HTTP_METHODS}
    \cup
    {RouteCallOf(c, Str(m), Str(p), k[2], k[1], "function") :
        c \in Classes,
        m \in {<<"G", "E", "T">>, <<"g", "e", "t">>, <<"P", "o", "s", "t">>},
        p \in {<<"/">>, <<"/", "a">>},
        k \in MemberInputs}

IllFormedCalls ==
    {RouteCallOf(c, m, Str(<<"/", "a">>), "undefined", "m1", "function") :
        c \in Classes,
        m \in {Undefined, Str(<<>>), Str(<<"F", "O", "O">>), Str(<<"G", "E", "T", "S">>)}}
    \cup
    {RouteCallOf(c, Str(<<"G", "E", "T">>), p, "undefined", "m1", "function") :
        c \in Classes,
        p \in {Undefined, Str(<<>>), Str(<<"a">>), Str(<<"a", "/">>)}}
    \cup
    {RouteCallOf(c, Str(<<"G", "E", "T">>), Str(<<"/", "a">>), "undefined", "m1", "undefined") :
        c \in Classes}
    \cup
    {RouteCallOf(c, Str(<<"F", "O", "O">>), Str(<<"a">>), "opts1", "m2", "undefined") :
        c \in Classes}

RouteCalls == WellFormedCalls \cup IllFormedCalls

-----------------------------------------------------------------------------
(* controllerPlugin (apps/server/src/plugins/controller-plugin) *)

\* A prefix that defaults to "/".
PrefixOf_Slash(options) ==
    IF options.prefix.type = "undefined" THEN <<"/">> ELSE options.prefix.chars

\* const { controllers, prefix = "" } = options
PrefixOf(options) ==
    IF options.prefix.type = "undefined" THEN <<>> ELSE options.prefix.chars

\* Container.get(Controller): the container's instance of the class
ContainerGet(Controller) == [instanceOf |-> Controller]

\* The object handed to fastify.route for one route record: method, url,
\* the handler bound to the instance, and the record's options spread in
\* (their type has no method, url or handler key).
FastifyRouteOf(route, prefix, controllerInstance) ==
    [method  |-> route.method,
     url     |-> prefix \o route.path,
     handler |-> [name |-> route.handler, boundTo |-> controllerInstance],
     options |-> route.options]

\* routes.forEach((route) => fastify.route({...})) for one controller
RegisterRoutes(meta, Controller, prefix) ==
    LET routes == getRoutesIn(meta, Controller)
    IN [r \in 1..Len(routes) |-> FastifyRouteOf(routes[r], prefix, ContainerGet(Controller))]

\* controllers.forEach((Controller) => ...): the fastify.route calls made
RECURSIVE RegisterControllers(_, _, _)
RegisterControllers(meta, controllers, prefix) ==
    IF controllers = <<>> THEN <<>>
    ELSE RegisterRoutes(meta, Head(controllers), prefix)
            \o RegisterControllers(meta, Tail(controllers), prefix)

PluginOptionsOf(controllers, prefix) == [controllers |-> controllers, prefix |-> prefix]

NotRun == [ran |-> FALSE, options |-> PluginOptionsOf(<<>>, Undefined), routes |-> <<>>]

\* controllerPlugin(fastify, options) on a fastify instance without routes
controllerPlugin(options) ==
    /\ routeCall = NoCall
    /\ fastify' = [ran |-> TRUE, options |-> options,
                   routes |-> RegisterControllers(routesMeta, options.controllers,
                                                  PrefixOf(options))]
    /\ UNCHANGED <<cronVars, routeVars, jobVars, execVars, paramVars, hookVars>>

\* The options the plugin is run with: up to two controllers, one possibly
\* twice, and a prefix given or not.
PluginOptionInputs ==
    {PluginOptionsOf(c, p) :
        c \in {<<>>} \cup {<<a>> : a \in Classes} \cup {<<a, b>> : a \in Classes, b \in Classes},
        p \in {Undefined, Str(<<"/", "a", "p", "i">>)}}

\* The routes the controllers are decorated with before the plugin runs.
ControllerRouteCalls ==
    {RouteCallOf(c, Str(<<"G", "E", "T">>), Str(p), "undefined", "m1", "function") :
        c \in Classes, p \in {<<"/">>, <<"/", "a">>}}
    \cup
    {RouteCallOf(c, Str(<<"p", "o", "s", "t">>), Str(<<"/", "a">>), "opts1", "m2", "function") :
        c \in Classes}

-----------------------------------------------------------------------------
(* The CronJob decorator and its metadata registry (part_003, 94-109, 207-345) *)

\* export const CRON_PATTERNS
CRON_PATTERNS ==
    [ EVERY_MINUTE |-> <<"*", " ", "*", " ", "*", " ", "*", " ", "*">>,
      EVERY_5_MINUTES |-> <<"*", "/", "5", " ", "*", " ", "*", " ", "*", " ", "*">>,
      EVERY_15_MINUTES |-> <<"*", "/", "1", "5", " ", "*", " ", "*", " ", "*", " ", "*">>,
      EVERY_30_MINUTES |-> <<"*", "/", "3", "0", " ", "*", " ", "*", " ", "*", " ", "*">>,
      EVERY_HOUR |-> <<"0", " ", "*", " ", "*", " ", "*", " ", "*">>,
      EVERY_2_HOURS |-> <<"0", " ", "*", "/", "2", " ", "*", " ", "*", " ", "*">>,
      EVERY_6_HOURS |-> <<"0", " ", "*", "/", "6", " ", "*", " ", "*", " ", "*">>,
      EVERY_12_HOURS |-> <<"0", " ", "*", "/", "1", "2", " ", "*", " ", "*", " ", "*">>,
      DAILY_MIDNIGHT |-> <<"0", " ", "0", " ", "*", " ", "*", " ", "*">>,
      DAILY_NOON |-> <<"0", " ", "1", "2", " ", "*", " ", "*", " ", "*">>,
      WEEKLY_SUNDAY |-> <<"0", " ", "0", " ", "*", " ", "*", " ", "0">>,
      WEEKLY_MONDAY |-> <<"0", " ", "0", " ", "*", " ", "*", " ", "1">>,
      MONTHLY_FIRST_DAY |-> <<"0", " ", "0", " ", "1", " ", "*", " ", "*">>,
      YEARLY_JANUARY_FIRST |-> <<"0", " ", "0", " ", "1", " ", "1", " ", "*">> ]

\* A JavaScript value held by an option: a key the object does not have, the
\* value undefined, a number (NaN included: typeof NaN is "number"), a
\* boolean (num 1 or 0), a string, null.
JsValue(type, nan, num) == [type |-> type, nan |-> nan, num |-> num]

JsAbsent == JsValue("absent", FALSE, 0)

JsUndefined == JsValue("undefined", FALSE, 0)

JsNumber(n) == JsValue("number", FALSE, n)

JsNaN == JsValue("number", TRUE, 0)

JsBoolean(b) == JsValue("boolean", FALSE, IF b THEN 1 ELSE 0)

JsString == JsValue("string", FALSE, 0)

JsNull == JsValue("object", FALSE, 0)

\* options.key: undefined when the object has no such key
Get(options, key) == IF options[key].type = "absent" THEN JsUndefined ELSE options[key]

\* v < n and v > n on a value whose typeof is "number": false of NaN
Lt(v, n) == ~v.nan /\ v.num < n

Gt(v, n) == ~v.nan /\ v.num > n

OptionKeys ==
    {"maxConcurrency", "timeout", "priority", "retryAttempts", "retryDelay",
     "enabled", "runOnInit"}

\* An options object with none of the keys, and the call without options.
EmptyOptions == [given |-> TRUE, keys |-> [k \in OptionKeys |-> JsAbsent]]

NoOptions == [given |-> FALSE, keys |-> [k \in OptionKeys |-> JsAbsent]]

\* validateCronJobOptions(options): the option whose check throws, or "none"
validateCronJobOptions(options) ==
    LET maxConcurrency == Get(options.keys, "maxConcurrency")
        timeout        == Get(options.keys, "timeout")
        priority       == Get(options.keys, "priority")
        retryAttempts  == Get(options.keys, "retryAttempts")
        retryDelay     == Get(options.keys, "retryDelay")
    IN IF ~options.given THEN "none"
       ELSE IF /\ maxConcurrency # JsUndefined
               /\ (maxConcurrency.type # "number" \/ Lt(maxConcurrency, 1))
            THEN "maxConcurrency"
       ELSE IF /\ timeout # JsUndefined
               /\ (timeout.type # "number" \/ Lt(timeout, 1))
            THEN "timeout"
       ELSE IF /\ priority # JsUndefined
               /\ (priority.type # "number" \/ Lt(priority, 1) \/ Gt(priority, 10))
            THEN "priority"
       ELSE IF /\ retryAttempts # JsUndefined
               /\ (retryAttempts.type # "number" \/ Lt(retryAttempts, 0))
            THEN "retryAttempts"
       ELSE IF /\ retryDelay # JsUndefined
               /\ (retryDelay.type # "number" \/ Lt(retryDelay, 0))
            THEN "retryDelay"
       ELSE "none"

\* The defaults written out in finalOptions (timeout has none).
DefaultOptions ==
    [k \in OptionKeys |->
        CASE k = "enabled"        -> JsBoolean(TRUE)
          [] k = "maxConcurrency" -> JsNumber(1)
          [] k = "priority"       -> JsNumber(5)
          [] k = "retryAttempts"  -> JsNumber(0)
          [] k = "retryDelay"     -> JsNumber(1000)
          [] k = "runOnInit"      -> JsBoolean(FALSE)
          [] k = "timeout"        -> JsAbsent]

\* { ...defaults, ...options }: every own key of options, whatever its value,
\* replaces the default.
finalOptions(options) ==
    [k \in OptionKeys |->
        IF options.given /\ options.keys[k].type # "absent"
        THEN options.keys[k] ELSE DefaultOptions[k]]

\* Reflect.getMetadata(CRON_JOBS_METADATA_KEY, target) ?? []
getCronJobsIn(meta, target) == OrEmpty(ReflectGetMetadata(meta, target))

\* getCronJobs(target)
getCronJobs(target) == getCronJobsIn(cronJobsMeta, target)

\* A duplicate test that looks at the first registered job only.
HasDuplicateJob_FirstOnly(existingJobs, jobName) ==
    existingJobs # <<>> /\ existingJobs[1].name = jobName

\* existingJobs.find(job => job.name === jobName)
HasDuplicateJob(existingJobs, jobName) ==
    \E i \in 1..Len(existingJobs) : existingJobs[i].name = jobName

\* const newJob = { expression, name: jobName, handler: jobName, options: finalOptions }
NewJob(call) ==
    [expression |-> call.expression,
     name       |-> call.propertyKey,
     handler    |-> call.propertyKey,
     options    |-> finalOptions(call.options)]

NoCronJobCall ==
    [cls |-> "none", expression |-> <<>>, options |-> NoOptions,
     propertyKey |-> "none", valueType |-> "undefined"]

CronJobCallOf(cls, expr, options, propertyKey, valueType) ==
    [cls |-> cls, expression |-> expr, options |-> options,
     propertyKey |-> propertyKey, valueType |-> valueType]

\* The expressions the model hands to CronJob: every predefined pattern, a
\* six-field expression, and expressions the validator refuses.
CronJobExpressions ==
    {CRON_PATTERNS[n] : n \in DOMAIN CRON_PATTERNS}
    \cup { <<"*", "/", "5", " ", "*", " ", "*", " ", "*", " ", "*", " ", "*">>,
           <<>>,
           <<"*", " ", "*", " ", "*", " ", "*">>,
           <<"6", "0", " ", "*", " ", "*", " ", "*", " ", "*">>,
           <<"*", " ", "*", " ", "*", " ", "*", " ", "8">> }

\* validateCronExpression on each of these expressions.
ExpressionVerdict == [e \in CronJobExpressions |-> validateCronExpression(e)]

\* What the decorator throws on this call, or "none": the checks in the
\* order of lines 271-298.
CronJobError(meta, call) ==
    IF ExpressionVerdict[call.expression].status = "error" THEN "cron-expression"
    ELSE IF validateCronJobOptions(call.options) # "none"
         THEN validateCronJobOptions(call.options)
    ELSE IF call.valueType # "function" THEN "not-a-method"
    ELSE IF HasDuplicateJob(getCronJobsIn(meta, call.cls), call.propertyKey)
         THEN "duplicate-job"
    ELSE "none"

\* CronJob(expression, options)(target, propertyKey, descriptor), with
\* target.constructor = call.cls: the decorator runs to its return or throw.
CronJob(call) ==
    LET error == CronJobError(cronJobsMeta, call)
    IN /\ cronJobCall = NoCronJobCall
       /\ cronJobCall' = call
       /\ cronJobThrown' = error
       /\ cronJobsMeta' =
             IF error = "none"
             THEN ReflectDefineMetadata(cronJobsMeta,
                      Append(getCronJobsIn(cronJobsMeta, call.cls), NewJob(call)), call.cls)
             ELSE cronJobsMeta
       /\ UNCHANGED <<cronVars, routeVars, execVars, pluginVars, paramVars, hookVars>>

\* The caller goes on after the decorator returned or threw.
CronJobReturns ==
    /\ cronJobCall # NoCronJobCall
    /\ cronJobCall' = NoCronJobCall
    /\ cronJobThrown' = "none"
    /\ UNCHANGED cronJobsMeta
    /\ UNCHANGED <<cronVars, routeVars, execVars, pluginVars, paramVars, hookVars>>

-----------------------------------------------------------------------------
(* Applications of CronJob the model makes *)

\* The options of Cron.dailyBackup (apps/server/src/cron/index.ts).
DailyBackupOptions ==
    [given |-> TRUE,
     keys |-> [EmptyOptions.keys EXCEPT !["maxConcurrency"] = JsNumber(1),
                                        !["timeout"] = JsNumber(10000),
                                        !["priority"] = JsNumber(1)]]

\* An options object with one key.
OneOption(k, v) == [given |-> TRUE, keys |-> [EmptyOptions.keys EXCEPT ![k] = v]]

NumericOptionKeys == {"maxConcurrency", "timeout", "priority", "retryAttempts", "retryDelay"}

NumericOptionValues ==
    {JsUndefined, JsNumber(-1), JsNumber(0), JsNumber(1), JsNumber(10), JsNumber(11),
     JsNaN, JsString, JsNull}

BooleanOptionValues == {JsUndefined, JsBoolean(TRUE), JsBoolean(FALSE)}

OptionInputs ==
    {NoOptions, EmptyOptions}
    \cup {OneOption(k, v) : k \in NumericOptionKeys, v \in NumericOptionValues}
    \cup {OneOption(k, v) : k \in {"enabled", "runOnInit"}, v \in BooleanOptionValues}

\* Every predefined pattern, on a method of the parent class.
PatternCalls ==
    {CronJobCallOf("A", CRON_PATTERNS[n], NoOptions, "m1", "function") :
        n \in DOMAIN CRON_PATTERNS}
    \cup {CronJobCallOf("A", CRON_PATTERNS.DAILY_MIDNIGHT, DailyBackupOptions, "m1", "function")}

\* Every options object, on a method of the subclass.
OptionCalls ==
    {CronJobCallOf("B", CRON_PATTERNS.EVERY_MINUTE, o, "m2", "function") : o \in OptionInputs}

\* A second job of the parent class, and a job of the subclass named as one
\* of the parent.
SecondJobCalls ==
    {CronJobCallOf("A", CRON_PATTERNS.EVERY_HOUR, NoOptions, "m2", "function"),
     CronJobCallOf("B", CRON_PATTERNS.DAILY_NOON, NoOptions, "m1", "function")}

\* Calls the decorator refuses before it looks at the registry: a refused
\* expression (alone and with a refused option), a member that is no method.
RefusedCalls ==
    {CronJobCallOf("A", e, o, "m1", "function") :
        e \in CronJobExpressions \ ({CRON_PATTERNS[n] : n \in DOMAIN CRON_PATTERNS}
                 \cup {<<"*", "/", "5", " ", "*", " ", "*", " ", "*", " ", "*", " ", "*">>}),
        o \in {NoOptions, OneOption("priority", JsNumber(0))}}
    \cup {CronJobCallOf("A", CRON_PATTERNS.EVERY_HOUR, o, "m1", "undefined") :
             o \in {NoOptions, OneOption("timeout", JsNumber(0))}}

CronJobCalls ==
    PatternCalls \cup OptionCalls \cup SecondJobCalls \cup RefusedCalls
    \cup {CronJobCallOf("A", <<"*", "/", "5", " ", "*", " ", "*", " ", "*", " ", "*", " ", "*">>,
                        NoOptions, "m1", "function")}

-----------------------------------------------------------------------------
(* executeCronJobSafely: the retry/timeout executor (part_003, 383-442) *)

\* Values passed around: undefined, a handler's result, an Error object.
\* The attempt that produced a value is part of it, as two Error objects of
\* two attempts are two objects.
NoValue == [kind |-> "undefined", message |-> "", source |-> "", attempt |-> 0]

ResultOf(k) == [kind |-> "result", message |-> "", source |-> "handler", attempt |-> k]

\* lastError: the Error caught, known by its message, by what threw it and by
\* the attempt. A thrown value that is not an Error is wrapped in an Error of
\* the same text (line 424) and is not told apart here.
ErrorOf(message, source, k) ==
    [kind |-> "error", message |-> message, source |-> source, attempt |-> k]

JobName == "job"

\* A call the executor made: of which function, in which attempt, with which
\* job name and second argument, and whether the call threw.
CallOf(callee, k, payload, threw) ==
    [callee |-> callee, attempt |-> k, name |-> JobName, payload |-> payload,
     threw |-> threw]

\* (options?.retryAttempts ?? 0)
RetryAttempts == job.retryAttempts

\* The function is suspended in an await, or has settled its promise: only
\* then does the event loop run a timer or a handler's completion.
Suspended == pc \in {"await", "delay", "returned", "raised"}

\* A status test that looks at the error's name, which is always "Error".
FinalStatus_ByName(lastError) == "failed"

\* lastError.message === "Timeout" ? 'timeout' : 'failed'
FinalStatus(lastError) == IF lastError.message = "Timeout" THEN "timeout" ELSE "failed"

\* const handler = instance[jobMetadata.handler]; if (typeof handler !== "function") throw
Enter ==
    /\ pc = "entry"
    /\ IF job.handlerIsFunction
       THEN /\ pc' = "loop"
            /\ attempt' = 1
            /\ UNCHANGED outcome
       ELSE /\ pc' = "raised"
            /\ outcome' = [kind |-> "raised", value |-> ErrorOf("not a function", "entry", 0)]
            /\ UNCHANGED attempt
    /\ UNCHANGED <<job, execution, invocations, timers, caught, calls>>
    /\ UNCHANGED <<cronVars, routeVars, jobVars, parked, pluginVars, paramVars, hookVars>>

\* A loop that begins an attempt only while fewer than maxConcurrency handler
\* invocations of the job's other call are in flight.
LoopCondition_UnderCap ==
    /\ attempt <= RetryAttempts + 1
    /\ Cardinality({i \in 1..Len(parked.invocations) :
                       parked.invocations[i].state = "pending"}) < job.maxConcurrency

\* Every arrival at the loop head satisfies the loop condition: the attempt
\* after the last one is never begun, as the last catch throws.
LoopCondition == attempt <= RetryAttempts + 1

\* An onStart that is called on the first attempt only.
AfterOnStart_FirstAttemptOnly(threw) ==
    IF job.onStart /\ attempt = 1
    THEN Append(calls, CallOf("onStart", attempt, NoValue, threw)) ELSE calls

\* The calls log after options?.onStart?.(jobMetadata.name)
AfterOnStart(threw) ==
    IF job.onStart THEN Append(calls, CallOf("onStart", attempt, NoValue, threw)) ELSE calls

\* An attempt begins and onStart throws: the handler is not reached.
AttemptOnStartThrows ==
    /\ pc = "loop"
    /\ LoopCondition
    /\ job.onStart
    /\ execution' = [execution EXCEPT !.attempt = attempt]
    /\ calls' = AfterOnStart(TRUE)
    /\ caught' = ErrorOf("callback", "onStart", attempt)
    /\ pc' = "catch"
    /\ UNCHANGED <<job, attempt, invocations, timers, outcome>>
    /\ UNCHANGED <<cronVars, routeVars, jobVars, parked, pluginVars, paramVars, hookVars>>

\* An attempt begins, onStart returns, and handler.call(instance) throws
\* before returning a promise: no timer is set.
AttemptHandlerThrows ==
    /\ pc = "loop"
    /\ LoopCondition
    /\ execution' = [execution EXCEPT !.attempt = attempt]
    /\ calls' = Append(AfterOnStart(FALSE), CallOf("handler", attempt, NoValue, TRUE))
    /\ invocations' = Append(invocations, [attempt |-> attempt, state |-> "threw"])
    /\ caught' = ErrorOf("boom", "handler", attempt)
    /\ pc' = "catch"
    /\ UNCHANGED <<job, attempt, timers, outcome>>
    /\ UNCHANGED <<cronVars, routeVars, jobVars, parked, pluginVars, paramVars, hookVars>>

\* An attempt that races the handler against a timer whether or not
\* options.timeout is set.
AttemptAwaits_AlwaysTimer ==
    /\ pc = "loop"
    /\ LoopCondition
    /\ execution' = [execution EXCEPT !.attempt = attempt]
    /\ calls' = Append(AfterOnStart(FALSE), CallOf("handler", attempt, NoValue, FALSE))
    /\ invocations' = Append(invocations, [attempt |-> attempt, state |-> "pending"])
    /\ timers' = Append(timers, [attempt |-> attempt, state |-> "armed"])
    /\ pc' = "await"
    /\ UNCHANGED <<job, attempt, caught, outcome>>
    /\ UNCHANGED <<cronVars, routeVars, jobVars, parked, pluginVars, paramVars, hookVars>>

\* An attempt begins, onStart returns, the handler is invoked and its promise
\* (raced against a new timer when options.timeout is set) is awaited.
AttemptAwaits ==
    /\ pc = "loop"
    /\ LoopCondition
    /\ execution' = [execution EXCEPT !.attempt = attempt]
    /\ calls' = Append(AfterOnStart(FALSE), CallOf("handler", attempt, NoValue, FALSE))
    /\ invocations' = Append(invocations, [attempt |-> attempt, state |-> "pending"])
    /\ timers' = IF job.timeout
                 THEN Append(timers, [attempt |-> attempt, state |-> "armed"])
                 ELSE timers
    /\ pc' = "await"
    /\ UNCHANGED <<job, attempt, caught, outcome>>
    /\ UNCHANGED <<cronVars, routeVars, jobVars, parked, pluginVars, paramVars, hookVars>>

\* Invocation i is the one the function is awaiting.
Awaited(i) == pc = "await" /\ i = Len(invocations)

\* The execution record after lines 415-417
Completed(result) ==
    [execution EXCEPT !.status = "completed", !.result = result, !.endTime = TRUE]

\* The calls log after options?.onComplete?.(jobMetadata.name, result)
AfterOnComplete(result, threw) ==
    IF job.onComplete THEN Append(calls, CallOf("onComplete", attempt, result, threw)) ELSE calls

\* The awaited handler invocation resolves: the record is completed,
\* onComplete is called, and the result is returned.
HandlerResolves ==
    /\ pc = "await"
    /\ invocations[Len(invocations)].state = "pending"
    /\ invocations' = [invocations EXCEPT ![Len(invocations)].state = "resolved"]
    /\ execution' = Completed(ResultOf(attempt))
    /\ calls' = AfterOnComplete(ResultOf(attempt), FALSE)
    /\ pc' = "returned"
    /\ outcome' = [kind |-> "returned", value |-> ResultOf(attempt)]
    /\ UNCHANGED <<job, attempt, timers, caught>>
    /\ UNCHANGED <<cronVars, routeVars, jobVars, parked, pluginVars, paramVars, hookVars>>

\* The awaited handler invocation resolves and onComplete throws: the throw
\* lands in the attempt's catch block.
HandlerResolvesOnCompleteThrows ==
    /\ pc = "await"
    /\ job.onComplete
    /\ invocations[Len(invocations)].state = "pending"
    /\ invocations' = [invocations EXCEPT ![Len(invocations)].state = "resolved"]
    /\ execution' = Completed(ResultOf(attempt))
    /\ calls' = AfterOnComplete(ResultOf(attempt), TRUE)
    /\ caught' = ErrorOf("callback", "onComplete", attempt)
    /\ pc' = "catch"
    /\ UNCHANGED <<job, attempt, timers, outcome>>
    /\ UNCHANGED <<cronVars, routeVars, jobVars, parked, pluginVars, paramVars, hookVars>>

\* The awaited handler invocation rejects, with any error message, the
\* message "Timeout" included.
HandlerRejects(message) ==
    /\ pc = "await"
    /\ invocations[Len(invocations)].state = "pending"
    /\ invocations' = [invocations EXCEPT ![Len(invocations)].state = "rejected"]
    /\ caught' = ErrorOf(message, "handler", attempt)
    /\ pc' = "catch"
    /\ UNCHANGED <<job, attempt, execution, timers, calls, outcome>>
    /\ UNCHANGED <<cronVars, routeVars, jobVars, parked, pluginVars, paramVars, hookVars>>

\* A late settlement that is still written to the execution record.
HandlerSettlesLate_Recorded(i, state) ==
    /\ Suspended
    /\ i \in 1..Len(invocations)
    /\ ~Awaited(i)
    /\ invocations[i].state = "pending"
    /\ invocations' = [invocations EXCEPT ![i].state = state]
    /\ execution' = IF state = "resolved"
                    THEN Completed(ResultOf(invocations[i].attempt))
                    ELSE [execution EXCEPT !.error = ErrorOf("boom", "handler", invocations[i].attempt)]
    /\ UNCHANGED <<job, pc, attempt, timers, caught, calls, outcome>>
    /\ UNCHANGED <<cronVars, routeVars, jobVars, parked, pluginVars, paramVars, hookVars>>

\* A handler invocation nobody awaits any more (its attempt timed out)
\* settles: nothing listens.
HandlerSettlesLate(i, state) ==
    /\ Suspended
    /\ i \in 1..Len(invocations)
    /\ ~Awaited(i)
    /\ invocations[i].state = "pending"
    /\ invocations' = [invocations EXCEPT ![i].state = state]
    /\ UNCHANGED <<job, pc, attempt, execution, timers, caught, calls, outcome>>
    /\ UNCHANGED <<cronVars, routeVars, jobVars, parked, pluginVars, paramVars, hookVars>>

\* The timer of the awaited race fires first: reject(new Error("Timeout")).
TimerFires ==
    /\ pc = "await"
    /\ timers # <<>>
    /\ timers[Len(timers)].attempt = attempt
    /\ timers[Len(timers)].state = "armed"
    /\ timers' = [timers EXCEPT ![Len(timers)].state = "fired"]
    /\ caught' = ErrorOf("Timeout", "timer", attempt)
    /\ pc' = "catch"
    /\ UNCHANGED <<job, attempt, execution, invocations, calls, outcome>>
    /\ UNCHANGED <<cronVars, routeVars, jobVars, parked, pluginVars, paramVars, hookVars>>

\* A timer whose race is already decided fires (it was never cleared): it
\* rejects a promise that has settled.
TimerFiresLate(k) ==
    /\ Suspended
    /\ k \in 1..Len(timers)
    /\ ~(pc = "await" /\ timers[k].attempt = attempt)
    /\ timers[k].state = "armed"
    /\ timers' = [timers EXCEPT ![k].state = "fired"]
    /\ UNCHANGED <<job, pc, attempt, execution, invocations, caught, calls, outcome>>
    /\ UNCHANGED <<cronVars, routeVars, jobVars, parked, pluginVars, paramVars, hookVars>>

\* A retry that does not wait.
CatchRetry_NoDelay ==
    /\ pc = "catch"
    /\ attempt <= RetryAttempts
    /\ execution' = [execution EXCEPT !.error = caught]
    /\ pc' = "loop"
    /\ attempt' = attempt + 1
    /\ UNCHANGED <<job, invocations, timers, caught, calls, outcome>>
    /\ UNCHANGED <<cronVars, routeVars, jobVars, parked, pluginVars, paramVars, hookVars>>

\* catch (error), attempts remaining: lastError is recorded, and the function
\* waits the retry delay when one is set, else goes straight to the next attempt.
CatchRetry ==
    /\ pc = "catch"
    /\ attempt <= RetryAttempts
    /\ execution' = [execution EXCEPT !.error = caught]
    /\ IF job.retryDelay
       THEN pc' = "delay" /\ UNCHANGED attempt
       ELSE pc' = "loop" /\ attempt' = attempt + 1
    /\ UNCHANGED <<job, invocations, timers, caught, calls, outcome>>
    /\ UNCHANGED <<cronVars, routeVars, jobVars, parked, pluginVars, paramVars, hookVars>>

\* A continue that repeats the attempt instead of moving to the next one.
DelayElapses_SameAttempt ==
    /\ pc = "delay"
    /\ pc' = "loop"
    /\ UNCHANGED attempt
    /\ UNCHANGED <<job, execution, invocations, timers, caught, calls, outcome>>
    /\ UNCHANGED <<cronVars, routeVars, jobVars, parked, pluginVars, paramVars, hookVars>>

\* The retry delay elapses: continue with the next attempt.
DelayElapses ==
    /\ pc = "delay"
    /\ pc' = "loop"
    /\ attempt' = attempt + 1
    /\ UNCHANGED <<job, execution, invocations, timers, caught, calls, outcome>>
    /\ UNCHANGED <<cronVars, routeVars, jobVars, parked, pluginVars, paramVars, hookVars>>

\* The execution record after lines 425, 434 and 435
Failed(lastError) ==
    [execution EXCEPT !.error = lastError, !.status = FinalStatus(lastError), !.endTime = TRUE]

\* The calls log after options?.onError?.(jobMetadata.name, lastError)
AfterOnError(lastError, threw) ==
    IF job.onError THEN Append(calls, CallOf("onError", attempt, lastError, threw)) ELSE calls

\* catch (error), last attempt: the status is set, onError is called and
\* lastError is thrown to the caller.
CatchFinal ==
    /\ pc = "catch"
    /\ ~(attempt <= RetryAttempts)
    /\ execution' = Failed(caught)
    /\ calls' = AfterOnError(caught, FALSE)
    /\ pc' = "raised"
    /\ outcome' = [kind |-> "raised", value |-> caught]
    /\ UNCHANGED <<job, attempt, invocations, timers, caught>>
    /\ UNCHANGED <<cronVars, routeVars, jobVars, parked, pluginVars, paramVars, hookVars>>

\* catch (error), last attempt, and onError throws: its error, not lastError,
\* reaches the caller.
CatchFinalOnErrorThrows ==
    /\ pc = "catch"
    /\ ~(attempt <= RetryAttempts)
    /\ job.onError
    /\ execution' = Failed(caught)
    /\ calls' = AfterOnError(caught, TRUE)
    /\ pc' = "raised"
    /\ outcome' = [kind |-> "raised", value |-> ErrorOf("callback", "onError", attempt)]
    /\ UNCHANGED <<job, attempt, invocations, timers, caught>>
    /\ UNCHANGED <<cronVars, routeVars, jobVars, parked, pluginVars, paramVars, hookVars>>

\* The locals and the execution record of one call of executeCronJobSafely.
CallState(p, a, e, i, t, c, l, o) ==
    [pc |-> p, attempt |-> a, execution |-> e, invocations |-> i, timers |-> t,
     caught |-> c, calls |-> l, outcome |-> o]

\* A call that has not begun, with its own fresh execution record.
FreshCall ==
    CallState("entry", 0,
              [status |-> "running", attempt |-> 0, result |-> NoValue,
               error |-> NoValue, endTime |-> FALSE],
              <<>>, <<>>, NoValue, <<>>, [kind |-> "pending", value |-> NoValue])

\* There is no second call.
NoSecondCall ==
    CallState("none", 0,
              [status |-> "running", attempt |-> 0, result |-> NoValue,
               error |-> NoValue, endTime |-> FALSE],
              <<>>, <<>>, NoValue, <<>>, [kind |-> "pending", value |-> NoValue])

\* Two calls of executeCronJobSafely for the same job descriptor, each with
\* its own execution record, share the one thread: when the call that runs
\* is suspended in an await (or has ended, or has not begun), the event loop
\* may run the other call, whose state waited in parked. The model's
\* variables always hold the call that runs.
Switch ==
    /\ parked.pc # "none"
    /\ Suspended \/ pc = "entry"
    /\ pc' = parked.pc
    /\ attempt' = parked.attempt
    /\ execution' = parked.execution
    /\ invocations' = parked.invocations
    /\ timers' = parked.timers
    /\ caught' = parked.caught
    /\ calls' = parked.calls
    /\ outcome' = parked.outcome
    /\ parked' = CallState(pc, attempt, execution, invocations, timers, caught, calls, outcome)
    /\ UNCHANGED job
    /\ UNCHANGED <<cronVars, routeVars, jobVars, pluginVars, paramVars, hookVars>>

-----------------------------------------------------------------------------
(* The parameter decorators Request() and Response() and their readers *)

REQUEST_PARAM_METADATA_KEY == "request-param"

RESPONSE_PARAM_METADATA_KEY == "response-param"

ParamMetadataKeys == {REQUEST_PARAM_METADATA_KEY, RESPONSE_PARAM_METADATA_KEY}

\* The objects a decorator or a reader is handed: TypeScript hands a
\* parameter decorator the prototype of the class for an instance method and
\* the class itself for a static method.
PrototypeOf(c) == [object |-> "prototype", of |-> c]

ClassObject(c) == [object |-> "class", of |-> c]

FunctionObject == [object |-> "Function", of |-> "none"]

\* target.constructor: a prototype's constructor is its class; a class is a
\* function, and so is Function, and a function's constructor is Function.
ConstructorOf(target) ==
    IF target.object = "prototype" THEN ClassObject(target.of) ELSE FunctionObject

\* The objects metadata ends up on.
MetadataOwners == {ClassObject(c) : c \in Classes} \cup {FunctionObject}

PropertyKeys == {"m1", "m2"}

\* Parameter positions of a method.
ParameterIndexes == {0, 1}

\* Reflect.getOwnMetadata(key, target, propertyKey): what the target itself
\* owns, the prototype chain is not walked.
ReflectGetOwnMetadata(meta, key, target, propertyKey) == meta[<<key, target, propertyKey>>]

\* Reflect.defineMetadata(key, value, target, propertyKey)
ReflectDefineOwnMetadata(meta, key, value, target, propertyKey) ==
    [meta EXCEPT ![<<key, target, propertyKey>>] = [defined |-> TRUE, value |-> value]]

NoParamsMetadata ==
    [slot \in ParamMetadataKeys \X MetadataOwners \X PropertyKeys |-> NoMetadata]

Decoration(decorator, target, propertyKey, parameterIndex) ==
    [decorator |-> decorator, target |-> target, propertyKey |-> propertyKey,
     parameterIndex |-> parameterIndex]

\* The function both decorators return, for the metadata key of each: the
\* list the constructor of the target owns for the method (or a new one),
\* with the index pushed, is stored on the constructor of the target.
ParameterDecorator(decorator, key, target, propertyKey, parameterIndex) ==
    LET existingParameters ==
            OrEmpty(ReflectGetOwnMetadata(paramsMeta, key, ConstructorOf(target), propertyKey))
    IN /\ Cardinality(decorated) < MaxParams
       /\ Decoration(decorator, target, propertyKey, parameterIndex) \notin decorated
       /\ paramsMeta' = ReflectDefineOwnMetadata(paramsMeta, key,
                            Append(existingParameters, parameterIndex),
                            ConstructorOf(target), propertyKey)
       /\ decorated' = decorated \cup
                            {Decoration(decorator, target, propertyKey, parameterIndex)}
       /\ UNCHANGED <<cronVars, routeVars, jobVars, execVars, pluginVars, hookVars>>

\* Request()(target, propertyKey, parameterIndex)
Request(target, propertyKey, parameterIndex) ==
    ParameterDecorator("Request", REQUEST_PARAM_METADATA_KEY, target, propertyKey,
                       parameterIndex)

\* Response()(target, propertyKey, parameterIndex)
Response(target, propertyKey, parameterIndex) ==
    ParameterDecorator("Response", RESPONSE_PARAM_METADATA_KEY, target, propertyKey,
                       parameterIndex)

\* getRequestParams(target, propertyKey)
getRequestParams(target, propertyKey) ==
    OrEmpty(ReflectGetOwnMetadata(paramsMeta, REQUEST_PARAM_METADATA_KEY,
                                  ConstructorOf(target), propertyKey))

\* getResponseParams(target, propertyKey)
getResponseParams(target, propertyKey) ==
    OrEmpty(ReflectGetOwnMetadata(paramsMeta, RESPONSE_PARAM_METADATA_KEY,
                                  ConstructorOf(target), propertyKey))

\* The targets decorated: instance methods of A and B and static methods of
\* A and B.
DecoratorTargets ==
    {PrototypeOf(c) : c \in Classes} \cup {ClassObject(c) : c \in Classes}

-----------------------------------------------------------------------------
(* The plugin decorators Plugin, BeforeRequest, AfterRequest and their *)
(* readers (src/src/plugin.ts) *)

PLUGIN_METADATA_KEY == "plugin"

BEFORE_REQUEST_HOOK_KEY == "before-request"

AFTER_REQUEST_HOOK_KEY == "after-request"

HookKeys == {BEFORE_REQUEST_HOOK_KEY, AFTER_REQUEST_HOOK_KEY}

\* Plugin(options)(target): { options } is defined on the class.
Plugin(target, options) ==
    /\ pluginMeta[target] # [defined |-> TRUE, value |-> [options |-> options]]
    /\ pluginMeta' = ReflectDefineMetadata(pluginMeta, [options |-> options], target)
    /\ UNCHANGED <<hooksMeta, hookArrays, hookLog>>
    /\ UNCHANGED <<cronVars, routeVars, jobVars, execVars, pluginVars, paramVars>>

\* Reflect.hasMetadata(key, target): the prototype chain is walked.
ReflectHasMetadata(meta, target) == ReflectGetMetadata(meta, target).defined

\* isPlugin(target)
isPlugin(target) == ReflectHasMetadata(pluginMeta, target)

\* getPluginMetadata(target): the metadata found, or undefined
getPluginMetadata(target) == ReflectGetMetadata(pluginMeta, target)

\* HookMetadata
HookMetadata(hookName, handler) == [hookName |-> hookName, handler |-> handler]

\* One application of a hook decorator to the member propertyKey of the
\* prototype of class c, whose descriptor.value has the given typeof.
HookCallOf(decorator, c, propertyKey, descriptorValue, threw) ==
    [decorator |-> decorator, class |-> c, propertyKey |-> propertyKey,
     descriptorValue |-> descriptorValue, threw |-> threw]

\* The array a class shows under a hook key: Reflect.getMetadata(key, c) || []
\* dereferenced. Metadata values are references <<n>> to hookArrays[n].
HooksIn(meta, arrays, key, c) ==
    LET found == ReflectGetMetadata(meta[key], c)
    IN IF found.defined THEN arrays[found.value[1]] ELSE <<>>

\* The function both hook decorators return, for the key and hook name of
\* each: a member that is no function is refused; else the array found for
\* target.constructor along the prototype chain (or a new one) has the new
\* record pushed onto it, in place, and is defined on target.constructor.
HookDecorator(decorator, key, hookName, c, propertyKey, descriptorValue) ==
    LET found == ReflectGetMetadata(hooksMeta[key], c)
        newHook == HookMetadata(hookName, propertyKey)
    IN /\ Len(hookLog) < MaxHooks
       /\ IF descriptorValue # "function"
          THEN /\ hookLog' = Append(hookLog,
                       HookCallOf(decorator, c, propertyKey, descriptorValue, TRUE))
               /\ UNCHANGED <<hooksMeta, hookArrays>>
          ELSE /\ hookLog' = Append(hookLog,
                       HookCallOf(decorator, c, propertyKey, descriptorValue, FALSE))
               /\ IF found.defined
                  THEN /\ hookArrays' = [hookArrays EXCEPT
                                            ![found.value[1]] = Append(@, newHook)]
                       /\ hooksMeta' = [hooksMeta EXCEPT
                              ![key] = ReflectDefineMetadata(@, found.value, c)]
                  ELSE /\ hookArrays' = Append(hookArrays, <<newHook>>)
                       /\ hooksMeta' = [hooksMeta EXCEPT
                              ![key] = ReflectDefineMetadata(@, <<Len(hookArrays) + 1>>, c)]
       /\ UNCHANGED pluginMeta
       /\ UNCHANGED <<cronVars, routeVars, jobVars, execVars, pluginVars, paramVars>>

\* BeforeRequest()(target, propertyKey, descriptor), target the prototype of c
BeforeRequest(c, propertyKey, descriptorValue) ==
    HookDecorator("BeforeRequest", BEFORE_REQUEST_HOOK_KEY, "onRequest", c, propertyKey,
                  descriptorValue)

\* AfterRequest()(target, propertyKey, descriptor), target the prototype of c
AfterRequest(c, propertyKey, descriptorValue) ==
    HookDecorator("AfterRequest", AFTER_REQUEST_HOOK_KEY, "onResponse", c, propertyKey,
                  descriptorValue)

\* getBeforeRequestHooks(target)
getBeforeRequestHooks(target) ==
    HooksIn(hooksMeta, hookArrays, BEFORE_REQUEST_HOOK_KEY, target)

\* getAfterRequestHooks(target)
getAfterRequestHooks(target) ==
    HooksIn(hooksMeta, hookArrays, AFTER_REQUEST_HOOK_KEY, target)

\* The options Plugin is given: none, or an options object.
PluginDecoratorOptions == {"undefined", "opts1"}

\* The members the hook decorators are applied to: methods m1 and m2 of A
\* and of B, and a member of A that is no function.
HookMemberInputs ==
    {<<c, k, "function">> : c \in Classes, k \in PropertyKeys}
    \cup {<<"A", "m1", "undefined">>}

-----------------------------------------------------------------------------
(* Specifications: each part of the library is explored on its own, the *)
(* others idle *)

CronIdle ==
    /\ expression = <<>>
    /\ cronFields = <<>>
    /\ cronResult = CronPending

RouteIdle ==
    /\ routesMeta = [c \in Classes |-> NoMetadata]
    /\ routeCall = NoCall
    /\ routeThrown = "none"

PluginIdle == fastify = NotRun

ParamIdle ==
    /\ paramsMeta = NoParamsMetadata
    /\ decorated = {}

HookIdle ==
    /\ pluginMeta = [c \in Classes |-> NoMetadata]
    /\ hooksMeta = [key \in HookKeys |-> [c \in Classes |-> NoMetadata]]
    /\ hookArrays = <<>>
    /\ hookLog = <<>>

JobIdle ==
    /\ cronJobsMeta = [c \in Classes |-> NoMetadata]
    /\ cronJobCall = NoCronJobCall
    /\ cronJobThrown = "none"

ExecIdle ==
    /\ job = [retryAttempts |-> 0, timeout |-> FALSE, retryDelay |-> FALSE,
              onStart |-> FALSE, onComplete |-> FALSE, onError |-> FALSE,
              maxConcurrency |-> 1, handlerIsFunction |-> TRUE]
    /\ pc = "entry"
    /\ attempt = 0
    /\ execution = [status |-> "running", attempt |-> 0, result |-> NoValue,
                    error |-> NoValue, endTime |-> FALSE]
    /\ invocations = <<>>
    /\ timers = <<>>
    /\ caught = NoValue
    /\ calls = <<>>
    /\ outcome = [kind |-> "pending", value |-> NoValue]
    /\ parked = NoSecondCall

\* One expression, validated once.
CronInit ==
    \E n \in 0..MaxFields, layout \in Layouts :
        \E background \in {StarField, ValueField(5)}, f \in FieldInputs, pos \in 1..n :
            /\ cronFields = [i \in 1..n |-> IF i = pos THEN f ELSE background]
            /\ expression = WriteExpression(cronFields, layout)
            /\ cronResult = CronPending

CronBlankInit ==
    /\ cronFields = <<>>
    /\ expression \in {<<>>, <<" ">>, <<" ", "\t">>}
    /\ cronResult = CronPending

InitCron == (CronInit \/ CronBlankInit) /\ RouteIdle /\ JobIdle /\ ExecIdle /\ PluginIdle /\ ParamIdle /\ HookIdle

NextCron == ValidateCron

SpecCron == InitCron /\ [][NextCron]_vars

\* Any sequence of applications of Route to the members of classes A and B.
InitRoute == RouteIdle /\ CronIdle /\ JobIdle /\ ExecIdle /\ PluginIdle /\ ParamIdle /\ HookIdle

NextRoute ==
    \/ \E call \in RouteCalls : Route(call)
    \/ RouteReturns

SpecRoute == InitRoute /\ [][NextRoute]_vars

\* Any sequence of applications of CronJob to the members of classes A and B.
InitCronJob == JobIdle /\ CronIdle /\ RouteIdle /\ ExecIdle /\ PluginIdle /\ ParamIdle /\ HookIdle

NextCronJob ==
    \/ \E call \in CronJobCalls : CronJob(call)
    \/ CronJobReturns

SpecCronJob == InitCronJob /\ [][NextCronJob]_vars

\* One call of executeCronJobSafely(jobMetadata, instance, execution), for
\* every job descriptor within the bounds, a fresh execution record, and
\* every order in which the handler, the timers and the callbacks behave.
InitExec ==
    /\ job \in [retryAttempts : 0..MaxRetry, timeout : BOOLEAN, retryDelay : BOOLEAN,
                onStart : BOOLEAN, onComplete : BOOLEAN, onError : BOOLEAN,
                maxConcurrency : {1}, handlerIsFunction : BOOLEAN]
    /\ pc = "entry"
    /\ attempt = 0
    /\ execution = [status |-> "running", attempt |-> 0, result |-> NoValue,
                    error |-> NoValue, endTime |-> FALSE]
    /\ invocations = <<>>
    /\ timers = <<>>
    /\ caught = NoValue
    /\ calls = <<>>
    /\ outcome = [kind |-> "pending", value |-> NoValue]
    /\ parked = NoSecondCall
    /\ RouteIdle
    /\ CronIdle
    /\ JobIdle
    /\ PluginIdle
    /\ ParamIdle
    /\ HookIdle

NextExec ==
    \/ Enter
    \/ AttemptOnStartThrows
    \/ AttemptHandlerThrows
    \/ AttemptAwaits
    \/ HandlerResolves
    \/ HandlerResolvesOnCompleteThrows
    \/ \E message \in {"boom", "Timeout"} : HandlerRejects(message)
    \/ \E i \in 1..Len(invocations), state \in {"resolved", "rejected"} : HandlerSettlesLate(i, state)
    \/ TimerFires
    \/ \E k \in 1..Len(timers) : TimerFiresLate(k)
    \/ CatchRetry
    \/ DelayElapses
    \/ CatchFinal
    \/ CatchFinalOnErrorThrows

SpecExec == InitExec /\ [][NextExec]_vars

\* The executor's own steps are taken once they can be: the function runs
\* on when it is not suspended, and the timers it set (the timeout of the
\* awaited race, the retry delay) go off. Nothing makes a handler settle.
ExecFairness ==
    /\ WF_vars(Enter)
    /\ WF_vars(AttemptOnStartThrows \/ AttemptHandlerThrows \/ AttemptAwaits)
    /\ WF_vars(TimerFires)
    /\ WF_vars(CatchRetry)
    /\ WF_vars(DelayElapses)
    /\ WF_vars(CatchFinal \/ CatchFinalOnErrorThrows)

SpecExecFair == SpecExec /\ ExecFairness

\* Classes A and B are decorated with routes, and controllerPlugin is run
\* on what getRoutes returns at that moment.
InitPlugin == RouteIdle /\ CronIdle /\ JobIdle /\ ExecIdle /\ PluginIdle /\ ParamIdle /\ HookIdle

NextPlugin ==
    \/ \E call \in ControllerRouteCalls : Route(call)
    \/ RouteReturns
    \/ \E options \in PluginOptionInputs : controllerPlugin(options)

SpecPlugin == InitPlugin /\ [][NextPlugin]_vars

\* Two calls of executeCronJobSafely for one job descriptor with
\* maxConcurrency = 1 and no callbacks, interleaved as the event loop allows.
InitConcurrent ==
    /\ job \in [retryAttempts : {0, 1}, timeout : BOOLEAN, retryDelay : BOOLEAN,
                onStart : {FALSE}, onComplete : {FALSE}, onError : {FALSE},
                maxConcurrency : {1}, handlerIsFunction : {TRUE}]
    /\ pc = "entry"
    /\ attempt = 0
    /\ execution = FreshCall.execution
    /\ invocations = <<>>
    /\ timers = <<>>
    /\ caught = NoValue
    /\ calls = <<>>
    /\ outcome = FreshCall.outcome
    /\ parked = FreshCall
    /\ RouteIdle
    /\ CronIdle
    /\ JobIdle
    /\ PluginIdle
    /\ ParamIdle
    /\ HookIdle

NextConcurrent ==
    \/ Enter
    \/ AttemptHandlerThrows
    \/ AttemptAwaits
    \/ HandlerResolves
    \/ \E message \in {"boom", "Timeout"} : HandlerRejects(message)
    \/ \E i \in 1..Len(invocations), state \in {"resolved", "rejected"} : HandlerSettlesLate(i, state)
    \/ TimerFires
    \/ \E k \in 1..Len(timers) : TimerFiresLate(k)
    \/ CatchRetry
    \/ DelayElapses
    \/ CatchFinal
    \/ Switch

SpecConcurrent == InitConcurrent /\ [][NextConcurrent]_vars

\* The parameters of instance and static methods of A and B are decorated,
\* in any order.
InitParams ==
    ParamIdle /\ RouteIdle /\ CronIdle /\ JobIdle /\ ExecIdle /\ PluginIdle /\ HookIdle

NextParams ==
    \/ \E target \in DecoratorTargets, propertyKey \in PropertyKeys,
          parameterIndex \in ParameterIndexes :
          Request(target, propertyKey, parameterIndex)
    \/ \E target \in DecoratorTargets, propertyKey \in PropertyKeys,
          parameterIndex \in ParameterIndexes :
          Response(target, propertyKey, parameterIndex)

SpecParams == InitParams /\ [][NextParams]_vars

\* Classes A and B (B extends A) are decorated with Plugin and their methods
\* with the hook decorators, in any order.
InitHooks ==
    HookIdle /\ RouteIdle /\ CronIdle /\ JobIdle /\ ExecIdle /\ PluginIdle /\ ParamIdle

NextHooks ==
    \/ \E target \in Classes, options \in PluginDecoratorOptions : Plugin(target, options)
    \/ \E member \in HookMemberInputs : BeforeRequest(member[1], member[2], member[3])
    \/ \E member \in HookMemberInputs : AfterRequest(member[1], member[2], member[3])

SpecHooks == InitHooks /\ [][NextHooks]_vars

-----------------------------------------------------------------------------
(* Claims about executeCronJobSafely (checked under SpecExec) *)

\* The function has settled the promise it returned to the caller.
ExecEnded == pc \in {"returned", "raised"}

\* The handler was invoked, and each of its invocations has failed.
HandlerFailedEachTime ==
    /\ job.handlerIsFunction
    /\ invocations # <<>>
    /\ \A i \in 1..Len(invocations) : invocations[i].state \in {"rejected", "threw"}

\* No callback has thrown so far.
CallbacksReturned ==
    \A c \in 1..Len(calls) : calls[c].callee = "handler" \/ ~calls[c].threw

\* C1: for a job whose handler fails on every invocation and whose
\* retryAttempts is n, the handler is invoked exactly n + 1 times and only
\* then is the error raised: never an (n + 2)-th invocation, never a raise
\* before the (n + 1)-th failure.
C1_RetriesExactly ==
    /\ Len(invocations) <= RetryAttempts + 1
    /\ (ExecEnded /\ HandlerFailedEachTime) =>
          /\ pc = "raised"
          /\ Len(invocations) = RetryAttempts + 1

\* What does hold of the retry count: the statement of C1 for the executions
\* in which every callback returned.
RetriesExactlyWhenCallbacksReturn ==
    /\ Len(invocations) <= RetryAttempts + 1
    /\ (ExecEnded /\ HandlerFailedEachTime /\ CallbacksReturned) =>
          /\ pc = "raised"
          /\ Len(invocations) = RetryAttempts + 1

\* The execution ends now, its last attempt lost the race to the timer.
EndsOnTimerExpiry == pc = "catch" /\ pc' = "raised" /\ caught.source = "timer"

\* C2: once the timeout timer has expired on the final attempt, the
\* execution ends with status 'timeout' while the handler invocation of that
\* attempt is still pending: the executor neither waits for it nor settles it.
C2_TimeoutWhileHandlerPending ==
    /\ [][EndsOnTimerExpiry =>
            /\ job.timeout
            /\ attempt = RetryAttempts + 1
            /\ execution'.status = "timeout"
            /\ execution'.endTime
            /\ invocations[Len(invocations)].attempt = attempt
            /\ invocations[Len(invocations)].state = "pending"
            /\ invocations' = invocations]_vars
    /\ []((pc = "raised" /\ caught.source = "timer") => execution.status = "timeout")

\* A job with retries whose handler never settled: every attempt timed out,
\* the execution ended, every invocation is still pending.
C2_Witness ==
    /\ pc = "raised"
    /\ caught.source = "timer"
    /\ execution.status = "timeout"
    /\ RetryAttempts >= 1
    /\ Len(invocations) = RetryAttempts + 1
    /\ \A i \in 1..Len(invocations) : invocations[i].state = "pending"

\* C3: when the final attempt fails, status is 'timeout' exactly when the
\* failure was the timer expiring before the handler settled and 'failed'
\* for every other failure, whatever its error; onError is called with the
\* job name and the error; that same error is raised to the caller.
C3_FinalFailure ==
    (pc = "raised" /\ job.handlerIsFunction) =>
        /\ execution.status = (IF caught.source = "timer" THEN "timeout" ELSE "failed")
        /\ execution.endTime
        /\ execution.error = caught
        /\ job.onError =>
              /\ calls # <<>>
              /\ calls[Len(calls)].callee = "onError"
              /\ calls[Len(calls)].name = JobName
              /\ calls[Len(calls)].payload = caught
        /\ outcome = [kind |-> "raised", value |-> caught]

\* What does hold of the final failure: the status follows the error's
\* message, and the caught error is raised when onError returns.
FinalFailureByMessage ==
    (pc = "raised" /\ job.handlerIsFunction) =>
        /\ execution.status = (IF caught.message = "Timeout" THEN "timeout" ELSE "failed")
        /\ execution.endTime
        /\ execution.error = caught
        /\ job.onError =>
              /\ calls # <<>>
              /\ calls[Len(calls)].callee = "onError"
              /\ calls[Len(calls)].name = JobName
              /\ calls[Len(calls)].payload = caught
        /\ ~(job.onError /\ calls[Len(calls)].threw) =>
              outcome = [kind |-> "raised", value |-> caught]

\* The awaited handler invocation succeeds now.
HandlerSucceeds ==
    /\ pc = "await"
    /\ invocations[Len(invocations)].state = "pending"
    /\ invocations'[Len(invocations)].state = "resolved"

\* C4: when an attempt's handler succeeds, status becomes 'completed', the
\* result is the handler's, endTime is set, onComplete is called with the
\* job name and the result, the result is returned to the caller, and no
\* further attempt is made.
C4_Success ==
    /\ [][HandlerSucceeds =>
            /\ execution'.status = "completed"
            /\ execution'.result = ResultOf(attempt)
            /\ execution'.endTime
            /\ job.onComplete =>
                  /\ calls'[Len(calls')].callee = "onComplete"
                  /\ calls'[Len(calls')].name = JobName
                  /\ calls'[Len(calls')].payload = ResultOf(attempt)
            /\ pc' = "returned"
            /\ outcome' = [kind |-> "returned", value |-> ResultOf(attempt)]]_vars
    /\ [][execution.status = "completed" =>
            /\ attempt' = attempt
            /\ Len(invocations') = Len(invocations)]_vars

\* What does hold of a success: the statement of C4 for the executions in
\* which onComplete returned.
SuccessWhenOnCompleteReturns ==
    /\ [][(HandlerSucceeds /\ ~(job.onComplete /\ calls'[Len(calls')].threw)) =>
            /\ execution'.status = "completed"
            /\ execution'.result = ResultOf(attempt)
            /\ execution'.endTime
            /\ job.onComplete =>
                  /\ calls'[Len(calls')].callee = "onComplete"
                  /\ calls'[Len(calls')].name = JobName
                  /\ calls'[Len(calls')].payload = ResultOf(attempt)
            /\ pc' = "returned"
            /\ outcome' = [kind |-> "returned", value |-> ResultOf(attempt)]]_vars
    /\ [](pc = "returned" => [](pc = "returned" /\ execution.status = "completed"))

\* The other call for the job is in progress: begun and not ended.
OtherInProgress == parked.pc \in {"await", "delay"}

\* The handler the other call awaits is running.
OtherHandlerRunning ==
    /\ parked.pc = "await"
    /\ parked.invocations[Len(parked.invocations)].state = "pending"

\* C15: executeCronJobSafely never consults maxConcurrency: with
\* maxConcurrency = 1, a call for a job is neither blocked nor delayed nor
\* rejected while another call for the same job is in progress (it begins,
\* and begins each attempt, as if it were alone, and raises only its own
\* handler's or timer's error), so two handlers of the job run at once.
C15_NoConcurrencyCap ==
    /\ (pc = "entry" /\ OtherInProgress) => ENABLED Enter
    /\ (pc = "loop" /\ OtherInProgress) => ENABLED AttemptAwaits
    /\ (pc = "delay" /\ OtherInProgress) => ENABLED DelayElapses
    /\ pc = "raised" => outcome.value.source \in {"handler", "timer"}

\* Both calls for the job of maxConcurrency 1 await their handlers.
C15_Witness ==
    /\ job.maxConcurrency = 1
    /\ pc = "await"
    /\ invocations[Len(invocations)].state = "pending"
    /\ OtherHandlerRunning

\* A handler invocation that nobody awaits settles in this step.
LateSettlement ==
    \E i \in 1..Len(invocations) :
        /\ invocations[i].state = "pending"
        /\ invocations'[i].state # "pending"
        /\ ~Awaited(i)

\* A timer whose race is decided fires in this step.
LateTimer ==
    \E k \in 1..Len(timers) :
        /\ timers[k].state = "armed"
        /\ timers'[k].state = "fired"
        /\ ~(pc = "await" /\ timers[k].attempt = attempt)

\* The step changes nothing the caller or the callbacks can see.
NothingObservable ==
    /\ execution' = execution
    /\ outcome' = outcome
    /\ calls' = calls
    /\ pc' = pc
    /\ attempt' = attempt
    /\ caught' = caught

\* In a race, the timer fires first (the handler settles first) in this step.
TimerWins ==
    /\ pc = "await"
    /\ timers # <<>>
    /\ timers[Len(timers)].attempt = attempt
    /\ timers[Len(timers)].state = "armed"
    /\ timers'[Len(timers)].state = "fired"

HandlerWins ==
    /\ pc = "await"
    /\ job.timeout
    /\ invocations[Len(invocations)].state = "pending"
    /\ invocations'[Len(invocations)].state # "pending"

\* C16: with a timeout set, whichever of handler completion and timer expiry
\* comes first decides the attempt and the loser is ignored: the handler of a
\* timed-out attempt is left pending (not aborted), and its late result or
\* error changes neither the execution record nor the value returned or
\* raised, and fires no callback; so does a timer that fires after its
\* handler settled.
C16_LoserIgnored ==
    /\ [][TimerWins =>
            /\ pc' = "catch"
            /\ caught' = ErrorOf("Timeout", "timer", attempt)
            /\ invocations' = invocations
            /\ invocations[Len(invocations)].state = "pending"]_vars
    /\ [][HandlerWins =>
            /\ timers' = timers
            /\ invocations'[Len(invocations)].state = "resolved" =>
                  /\ execution'.status = "completed"
                  /\ execution'.result = ResultOf(attempt)
            /\ invocations'[Len(invocations)].state = "rejected" =>
                  /\ pc' = "catch"
                  /\ caught'.source = "handler"]_vars
    /\ [][LateSettlement => NothingObservable]_vars
    /\ [][LateTimer => NothingObservable]_vars

\* The execution ended with status 'timeout', and afterwards the handler of
\* its last attempt resolved.
C16_Witness ==
    /\ pc = "raised"
    /\ execution.status = "timeout"
    /\ execution.result = NoValue
    /\ outcome.value = ErrorOf("Timeout", "timer", attempt)
    /\ invocations[Len(invocations)].state = "resolved"

\* An attempt has failed and attempts remain.
IntermediateFailure == pc = "catch" /\ attempt <= RetryAttempts

\* Nothing of a next attempt happens in this step.
NoNextAttemptYet ==
    /\ calls' = calls
    /\ Len(invocations') = Len(invocations)
    /\ execution'.attempt = execution.attempt

\* C17: after an attempt fails with attempts remaining, the executor waits
\* the retry delay before anything of the next attempt happens (no onStart,
\* no handler of attempt k + 1 before the delay has elapsed), then sets
\* execution.attempt to exactly k + 1; the intermediate failure sets no
\* failure status and calls no onError.
C17_RetryAfterDelay ==
    /\ [][IntermediateFailure =>
            /\ NoNextAttemptYet
            /\ execution'.status = execution.status
            /\ execution'.endTime = execution.endTime
            /\ job.retryDelay => pc' = "delay"]_vars
    /\ [][pc = "delay" => NoNextAttemptYet /\ attempt' \in {attempt, attempt + 1}]_vars
    /\ [][(pc = "loop" /\ pc' # "loop" /\ attempt > 1) =>
            /\ execution.attempt = attempt - 1
            /\ execution'.attempt = attempt]_vars
    /\ [](\A c \in 1..Len(calls) :
            calls[c].callee = "onError" => calls[c].attempt = RetryAttempts + 1)

\* A job with a retry delay and an onError is in its second attempt: still
\* running, onError not called.
C17_Witness ==
    /\ job.retryDelay
    /\ job.onError
    /\ pc = "await"
    /\ execution.attempt = 2
    /\ execution.status = "running"
    /\ execution.error # NoValue
    /\ \A c \in 1..Len(calls) : calls[c].callee # "onError"

\* The calls of one callee, in order.
CallsOf(callee) == SelectSeq(calls, LAMBDA c : c.callee = callee)

\* C18: on every attempt onStart (when given) is called with the job name
\* before the handler of that attempt, once per attempt: the number of
\* onStart calls is the number of attempts, and each handler invocation
\* comes right after its own onStart call.
C18_OnStartPerAttempt ==
    job.onStart =>
        /\ Len(CallsOf("onStart")) = execution.attempt
        /\ \A k \in 1..Len(CallsOf("onStart")) :
              /\ CallsOf("onStart")[k].attempt = k
              /\ CallsOf("onStart")[k].name = JobName
        /\ \A c \in 1..Len(calls) :
              calls[c].callee = "handler" =>
                 /\ c > 1
                 /\ calls[c - 1].callee = "onStart"
                 /\ calls[c - 1].attempt = calls[c].attempt
                 /\ ~calls[c - 1].threw

\* An execution of three attempts ended, each handler invocation after its
\* own onStart.
C18_Witness ==
    /\ job.onStart
    /\ ExecEnded
    /\ execution.attempt = 3
    /\ Len(CallsOf("handler")) = 3
    /\ Len(CallsOf("onStart")) = 3

\* The statement of C24 for the state the execution has reached.
OneTerminalCallback ==
    /\ pc = "returned" =>
          /\ job.onComplete => Len(CallsOf("onComplete")) = 1
          /\ CallsOf("onError") = <<>>
    /\ pc = "raised" =>
          /\ job.onError => Len(CallsOf("onError")) = 1
          /\ CallsOf("onComplete") = <<>>
    /\ \A c \in 1..Len(calls) :
          calls[c].callee = "onError" => calls[c].attempt = RetryAttempts + 1

\* C24: an execution that has returned called onComplete exactly once and
\* onError never; an execution that has raised called onError exactly once
\* and onComplete never; onError is never called for an attempt that is
\* followed by a retry.
C24_OneTerminalCallback == OneTerminalCallback

\* What does hold: the statement for the executions that reached the loop
\* and in which no call of onComplete threw.
TerminalCallbackWhenOnCompleteReturns ==
    ( /\ job.handlerIsFunction
      /\ \A c \in 1..Len(calls) : calls[c].callee = "onComplete" => ~calls[c].threw )
    => OneTerminalCallback

\* {retryAttempts: 0, onComplete: f, onError: g}: the handler resolves, f
\* throws, and both f and g have been called when the execution raises.
C24_FailingInput ==
    /\ RetryAttempts = 0
    /\ pc = "raised"
    /\ Len(invocations) = 1 /\ invocations[1].state = "resolved"
    /\ Len(CallsOf("onComplete")) = 1
    /\ Len(CallsOf("onError")) = 1

\* {onError: g} and an instance whose handler member is not a function: the
\* execution raises and g is never called.
FailingInputNoHandler ==
    /\ ~job.handlerIsFunction /\ job.onError
    /\ pc = "raised"
    /\ calls = <<>>

\* C25: once the record's status is 'completed' it stays 'completed' and
\* the handler is not invoked again in that execution, whatever the onStart
\* and onComplete callbacks do, a throw included.
C25_CompletedIsFinal ==
    [][execution.status = "completed" =>
          /\ execution'.status = "completed"
          /\ Len(invocations') = Len(invocations)]_vars

\* What does hold: 'completed' is final in the executions in which no call
\* of onComplete threw.
CompletedIsFinalUnlessOnCompleteThrew ==
    [][( /\ execution.status = "completed"
         /\ \A c \in 1..Len(calls) : calls[c].callee = "onComplete" => ~calls[c].threw ) =>
          /\ execution'.status = "completed"
          /\ Len(invocations') = Len(invocations)]_vars

\* {retryAttempts: 1, onComplete: f}: the handler resolved in attempt 1, f
\* threw, the handler was invoked again, and the record that was 'completed'
\* ends 'failed'.
C25_FailingInput ==
    /\ RetryAttempts = 1
    /\ pc = "raised"
    /\ Len(invocations) = 2
    /\ invocations[1].state = "resolved"
    /\ execution.status = "failed"
    /\ execution.result = ResultOf(1)

\* The handler invocations that have not settled.
InFlight == {i \in 1..Len(invocations) : invocations[i].state = "pending"}

\* The timer set for the attempt of invocation i has fired.
TimedOut(i) ==
    \E k \in 1..Len(timers) :
        timers[k].attempt = invocations[i].attempt /\ timers[k].state = "fired"

\* C26 as stated: at most one invocation of the handler is in flight at any
\* time of an execution, for every combination of timeout, retryAttempts and
\* retryDelay.
C26_AsStated == Cardinality(InFlight) <= 1

\* C26 as amended: without a timeout at most one invocation of the handler
\* is in flight, as an attempt begins only after the invocation of the
\* attempt before it has settled; with a timeout, the invocations in flight
\* are the one awaited and invocations whose attempt timed out, which are
\* not aborted, so that up to retryAttempts + 1 can be in flight.
C26_OneInFlightWithoutTimeout ==
    /\ ~job.timeout => Cardinality(InFlight) <= 1
    /\ Cardinality(InFlight) <= RetryAttempts + 1
    /\ \A i \in InFlight : Awaited(i) \/ (job.timeout /\ TimedOut(i))

\* Without a timeout, the second attempt's invocation is in flight after the
\* first one's was rejected.
C26_Witness ==
    /\ ~job.timeout
    /\ Len(invocations) = 2
    /\ invocations[1].state = "rejected"
    /\ InFlight = {2}

\* With a timeout and a retry, two invocations are in flight.
TwoInFlight ==
    /\ job.timeout
    /\ InFlight = {1, 2}

\* The first attempt has started.
AttemptStarted == pc \notin {"entry", "loop"} \/ attempt > 1

\* execution.attempt is in range, and moves only upwards, one at a time.
AttemptInRange ==
    /\ [](execution.attempt \in 0..(RetryAttempts + 1))
    /\ []((AttemptStarted /\ job.handlerIsFunction) => execution.attempt >= 1)
    /\ [][execution'.attempt \in {execution.attempt, execution.attempt + 1}]_vars

\* C27: with retryAttempts = n, execution.attempt is within 1..n + 1 once
\* the first attempt has started, never decreases, grows by exactly 1 per new
\* attempt, and when the execution has returned or raised it equals the
\* number of times the handler was invoked.
C27_AttemptCounts ==
    /\ AttemptInRange
    /\ [](ExecEnded => execution.attempt = Len(invocations))

\* What does hold: the range and the steps always, and the equality with the
\* number of invocations in the executions in which no call of onStart threw.
AttemptCountsWhenOnStartReturns ==
    /\ AttemptInRange
    /\ []((ExecEnded /\ \A c \in 1..Len(calls) :
                            calls[c].callee = "onStart" => ~calls[c].threw)
            => execution.attempt = Len(invocations))

\* {retryAttempts: 1, onStart: f}, f throwing each time: the execution has
\* raised with execution.attempt = 2 and the handler never invoked.
C27_FailingInput ==
    /\ RetryAttempts = 1
    /\ pc = "raised"
    /\ execution.attempt = 2
    /\ invocations = <<>>

\* The function waits for a handler invocation that has not settled, with
\* no timer beside it.
WaitsForHandlerOnly ==
    /\ pc = "await"
    /\ ~job.timeout
    /\ invocations[Len(invocations)].state = "pending"

\* C28: the execution eventually returns or raises whenever a timeout is set
\* or every handler invocation settles, and never after more than
\* retryAttempts + 1 attempts; it stays pending for ever only while it waits,
\* with no timeout set, for a handler invocation that never settles.
C28_Terminates ==
    /\ job.timeout => <>ExecEnded
    /\ <>ExecEnded \/ <>[]WaitsForHandlerOnly
    /\ [](/\ attempt <= RetryAttempts + 1
          /\ execution.attempt <= RetryAttempts + 1
          /\ Len(invocations) <= RetryAttempts + 1)

\* A job with a timeout, a retry delay and retries whose handler never
\* settled has ended after retryAttempts + 1 attempts, each timed out.
C28_Witness ==
    /\ job.timeout /\ job.retryDelay
    /\ RetryAttempts >= 1
    /\ ExecEnded
    /\ execution.attempt = RetryAttempts + 1
    /\ InFlight = 1..(RetryAttempts + 1)
    /\ \A k \in 1..Len(timers) : timers[k].state = "fired"

\* Without a timeout the function waits for a handler that has not settled.
PendingWithoutTimeout == WaitsForHandlerOnly /\ attempt = RetryAttempts + 1

-----------------------------------------------------------------------------
(* Claims about the cron-expression validator (checked under SpecCron) *)

\* The field ranges as the specification states them, in field order.
StatedRanges5 ==
    << [min |-> 0, max |-> 59], [min |-> 0, max |-> 23], [min |-> 1, max |-> 31],
       [min |-> 1, max |-> 12], [min |-> 0, max |-> 7] >>

StatedRanges6 ==
    << [min |-> 0, max |-> 59], [min |-> 0, max |-> 59], [min |-> 0, max |-> 23],
       [min |-> 1, max |-> 31], [min |-> 1, max |-> 12], [min |-> 0, max |-> 7] >>

StatedRange(n, i) == IF n = 6 THEN StatedRanges6[i] ELSE StatedRanges5[i]

NumIn(tok, r) == tok.t = "num" /\ r.min <= tok.n /\ tok.n <= r.max

NumOutside(tok, r) == tok.t = "num" /\ (tok.n < r.min \/ tok.n > r.max)

\* A field of one of the accepted forms, every value within the range r.
WellFormedField(f, r) ==
    CASE f.kind \in {"star", "question"} -> TRUE
      [] f.kind = "value" -> NumIn(f.toks[1], r)
      [] f.kind = "range" ->
            NumIn(f.toks[1], r) /\ NumIn(f.toks[2], r) /\ f.toks[1].n <= f.toks[2].n
      [] f.kind = "step" ->
            /\ f.toks[1].t = "star" \/ NumIn(f.toks[1], r)
            /\ f.toks[2].t = "num" /\ f.toks[2].n > 0
      [] f.kind = "list" -> \A i \in DOMAIN f.toks : NumIn(f.toks[i], r)
      [] OTHER -> FALSE

\* A field with an out-of-range value or one of the malformed shapes.
MalformedField(f, r) ==
    CASE f.kind = "value" -> NumOutside(f.toks[1], r)
      [] f.kind \in {"range", "rangestep"} ->
            \/ NumOutside(f.toks[1], r) \/ NumOutside(f.toks[2], r)
            \/ f.toks[1].t = "num" /\ f.toks[2].t = "num" /\ f.toks[1].n > f.toks[2].n
      [] f.kind = "step" ->
            \/ NumOutside(f.toks[1], r)
            \/ f.toks[2].t \in {"alpha", "empty"}
            \/ f.toks[2].t = "num" /\ f.toks[2].n <= 0
      [] f.kind = "list" ->
            \E i \in DOMAIN f.toks : f.toks[i].t \in {"empty", "alpha"} \/ NumOutside(f.toks[i], r)
      [] OTHER -> FALSE

CronDone == cronResult.status # "pending"

NumFields == Len(cronFields)

\* C8: every expression of 5 or 6 fields, each of an accepted form with its
\* values within the field's range (the minimum included), is accepted.
C8_AcceptsWellFormed ==
    ( /\ CronDone
      /\ NumFields \in {5, 6}
      /\ \A i \in 1..NumFields : WellFormedField(cronFields[i], StatedRange(NumFields, i)) )
    => cronResult.status = "ok"

\* C9: every expression with an out-of-range or malformed field is rejected.
C9_RejectsMalformed ==
    ( /\ CronDone
      /\ NumFields \in {5, 6}
      /\ \E i \in 1..NumFields : MalformedField(cronFields[i], StatedRange(NumFields, i)) )
    => cronResult.status = "error"

-----------------------------------------------------------------------------
(* Claims about the Route decorator (checked under SpecRoute) *)

\* The seven method names as the specification lists them.
StatedMethods ==
    { <<"G", "E", "T">>, <<"P", "O", "S", "T">>, <<"P", "U", "T">>,
      <<"D", "E", "L", "E", "T", "E">>, <<"P", "A", "T", "C", "H">>,
      <<"H", "E", "A", "D">>, <<"O", "P", "T", "I", "O", "N", "S">> }

\* This step is an application of Route; routeCall' holds its arguments.
RouteApplied == routeCall = NoCall /\ routeCall' # NoCall

PathHasSlash(path) == path.type = "string" /\ path.chars # <<>> /\ path.chars[1] = "/"

\* The class already shows a route with the call's method (as written) and path.
PairRegistered(routes, call) ==
    /\ call.method.type = "string"
    /\ call.path.type = "string"
    /\ \E i \in 1..Len(routes) :
          routes[i].method = call.method.chars /\ routes[i].path = call.path.chars

RoutesUntouched == \A c \in Classes : getRoutesIn(routesMeta', c) = getRoutesIn(routesMeta, c)

\* C5: for each of the seven methods and every path starting with '/', applying
\* Route to a method of a class that shows no route with that (method, path)
\* succeeds, and getRoutes of the class then contains the record
\* {method, path, handler = the method's name, options}.
C5_RegisterThenRetrieve ==
    [][ ( /\ RouteApplied
          /\ routeCall'.method.type = "string"
          /\ routeCall'.method.chars \in StatedMethods
          /\ PathHasSlash(routeCall'.path)
          /\ routeCall'.valueType = "function"
          /\ ~PairRegistered(getRoutes(routeCall'.cls), routeCall') )
        => /\ routeThrown' = "none"
           /\ \E i \in 1..Len(getRoutesIn(routesMeta', routeCall'.cls)) :
                 getRoutesIn(routesMeta', routeCall'.cls)[i] =
                     [method  |-> routeCall'.method.chars,
                      path    |-> routeCall'.path.chars,
                      handler |-> routeCall'.propertyKey,
                      options |-> routeCall'.options] ]_vars

\* Class B registered OPTIONS on a path and getRoutes(B) shows the record.
C5_Witness ==
    /\ routeThrown = "none"
    /\ routeCall.cls = "B"
    /\ routeCall.method = Str(<<"O", "P", "T", "I", "O", "N", "S">>)
    /\ \E i \in 1..Len(getRoutes("B")) :
          /\ getRoutes("B")[i].method = <<"O", "P", "T", "I", "O", "N", "S">>
          /\ getRoutes("B")[i].handler = routeCall.propertyKey

\* C6: applying Route with a (method, path) pair the class already has
\* registered raises an error, and the routes of the class (of every class)
\* are left exactly as they were.
C6_DuplicateRejected ==
    [][ (RouteApplied /\ PairRegistered(getRoutes(routeCall'.cls), routeCall'))
        => routeThrown' # "none" /\ RoutesUntouched ]_vars

\* A duplicate (method, path) was refused although the member it was applied
\* to is not the one that registered the pair.
C6_Witness ==
    /\ routeThrown = "duplicate-route"
    /\ \E i \in 1..Len(getRoutes(routeCall.cls)) :
          /\ getRoutes(routeCall.cls)[i].method = routeCall.method.chars
          /\ getRoutes(routeCall.cls)[i].path = routeCall.path.chars
          /\ getRoutes(routeCall.cls)[i].handler # routeCall.propertyKey

\* C7 as stated: a method that is not one of the seven names, a path that does
\* not start with '/', or a member that is not a function raises an error and
\* stores no route.
C7_AsStated ==
    [][ ( /\ RouteApplied
          /\ \/ routeCall'.method.type # "string"
             \/ routeCall'.method.chars \notin StatedMethods
             \/ ~PathHasSlash(routeCall'.path)
             \/ routeCall'.valueType # "function" )
        => routeThrown' # "none" /\ RoutesUntouched ]_vars

\* C7 as amended: a method that is not one of the seven names in any letter
\* case, a path that does not start with '/', or a member that is not a
\* function raises an error and stores no route.
C7_InvalidArgumentsRejected ==
    [][ ( /\ RouteApplied
          /\ \/ routeCall'.method.type # "string"
             \/ toUpperCase(routeCall'.method.chars) \notin StatedMethods
             \/ ~PathHasSlash(routeCall'.path)
             \/ routeCall'.valueType # "function" )
        => routeThrown' # "none" /\ RoutesUntouched ]_vars

\* Route was refused on a member that is not a function, on a class that
\* already has routes.
C7_Witness ==
    /\ routeThrown = "not-a-method"
    /\ routeCall.valueType # "function"
    /\ getRoutes(routeCall.cls) # <<>>

\* The records of a list are well formed and pairwise distinct in (method, path).
WellFormedRoutes(routes) ==
    /\ \A i \in 1..Len(routes) :
          /\ routes[i].method \in StatedMethods
          /\ routes[i].path # <<>>
          /\ routes[i].path[1] = "/"
    /\ \A i, j \in 1..Len(routes) :
          (routes[i].method = routes[j].method /\ routes[i].path = routes[j].path) => i = j

\* C22: after any sequence of successful and failed applications of Route,
\* with method names in any letter case, every record of getRoutes(C) has
\* one of the seven upper-case method names and a path starting with '/',
\* and no two records of getRoutes(C) share (method, path); a method name
\* that differs only in letter case from one registered on the same path is
\* refused as the same route.
C22_RoutesWellFormed ==
    /\ [](\A c \in Classes : WellFormedRoutes(getRoutes(c)))
    /\ [][ ( /\ RouteApplied
             /\ routeCall'.method.type = "string"
             /\ routeCall'.path.type = "string"
             /\ \E i \in 1..Len(getRoutes(routeCall'.cls)) :
                   /\ getRoutes(routeCall'.cls)[i].method = toUpperCase(routeCall'.method.chars)
                   /\ getRoutes(routeCall'.cls)[i].path = routeCall'.path.chars )
           => routeThrown' # "none" /\ RoutesUntouched ]_vars

\* 'get' was refused on a path on which GET is registered, on a class whose
\* list holds two records, after an ill-formed application had been refused.
C22_Witness ==
    /\ routeThrown = "duplicate-route"
    /\ routeCall.method = Str(<<"g", "e", "t">>)
    /\ Len(getRoutes(routeCall.cls)) = 2
    /\ \E i \in 1..2 :
          /\ getRoutes(routeCall.cls)[i].method = <<"G", "E", "T">>
          /\ getRoutes(routeCall.cls)[i].path = routeCall.path.chars

\* getRoutes of class c is the same after the step.
RoutesOfUntouched(c) == getRoutesIn(routesMeta', c) = getRoutesIn(routesMeta, c)

\* C30 as stated: applying Route to a method of a class leaves getRoutes of
\* every other class unchanged, and a class that has registered nothing
\* itself gets no duplicate error for a pair, whatever other classes have
\* registered, the class it extends included.
C30_AsStated ==
    [][RouteApplied =>
          /\ \A c \in Classes \ {routeCall'.cls} : RoutesOfUntouched(c)
          /\ ~routesMeta[routeCall'.cls].defined => routeThrown' # "duplicate-route"]_vars

\* C30 as amended: applying Route to a method of a class never changes the
\* list another class owns, and leaves getRoutes of every other class
\* unchanged but for a class that extends the decorated one and owns no list
\* yet; the duplicate error is raised exactly when getRoutes of the
\* decorated class, inherited records included, shows the pair, so a pair
\* registered on an unrelated class, or on the parent after the class took
\* its own list, can be registered again.
C30_RoutesPerClass ==
    [][RouteApplied =>
          /\ \A c \in Classes \ {routeCall'.cls} :
                /\ routesMeta'[c] = routesMeta[c]
                /\ (ParentOf(c) # routeCall'.cls \/ routesMeta[c].defined)
                      => RoutesOfUntouched(c)
          /\ RouteArgumentError(routeCall') = "none" =>
                (routeThrown' = "duplicate-route"
                    <=> \E i \in 1..Len(getRoutes(routeCall'.cls)) :
                           /\ getRoutes(routeCall'.cls)[i].method
                                 = toUpperCase(routeCall'.method.chars)
                           /\ getRoutes(routeCall'.cls)[i].path = routeCall'.path.chars)]_vars

\* A pair that B registered was registered on A, the class B extends,
\* without error: both own a record of it, and B's list is as it was.
C30_Witness ==
    /\ routeCall.cls = "A"
    /\ routeThrown = "none"
    /\ routesMeta["B"].defined
    /\ Len(routesMeta["B"].value) = 1
    /\ \E i \in 1..Len(routesMeta["A"].value) :
          /\ routesMeta["A"].value[i].method = routesMeta["B"].value[1].method
          /\ routesMeta["A"].value[i].path = routesMeta["B"].value[1].path
          /\ routesMeta["A"].value[i].method = toUpperCase(routeCall.method.chars)
          /\ routesMeta["A"].value[i].path = routeCall.path.chars

\* class A { @Get('/a') m1() {} }  class B extends A { @Get('/a') m1() {} }:
\* the decoration of B throws.
RefusedOnSubclass ==
    /\ routeCall.cls = "B"
    /\ routeThrown = "duplicate-route"
    /\ ~routesMeta["B"].defined
    /\ Len(routesMeta["A"].value) = 1

-----------------------------------------------------------------------------
(* Claims about the CronJob decorator (checked under SpecCronJob) *)

\* The decorator has just run on cronJobCall.
CronJobApplied == cronJobCall # NoCronJobCall

\* This step is an application of the decorator.
CronJobStep == cronJobCall = NoCronJobCall /\ cronJobCall' # NoCronJobCall

PatternExpressions == {CRON_PATTERNS[n] : n \in DOMAIN CRON_PATTERNS}

\* The ranges the options are documented to have; only priority has an
\* upper limit.
StatedOptionRange(k) ==
    CASE k = "maxConcurrency" -> [lo |-> 1, capped |-> FALSE, hi |-> 0]
      [] k = "timeout"        -> [lo |-> 1, capped |-> FALSE, hi |-> 0]
      [] k = "priority"       -> [lo |-> 1, capped |-> TRUE,  hi |-> 10]
      [] k = "retryAttempts"  -> [lo |-> 0, capped |-> FALSE, hi |-> 0]
      [] k = "retryDelay"     -> [lo |-> 0, capped |-> FALSE, hi |-> 0]

\* The caller gave the option a value (a key set to undefined reads as a
\* missing key).
HasValue(options, k) ==
    options.given /\ options.keys[k].type \notin {"absent", "undefined"}

\* The value is a number inside the range.
InsideRange(v, k) ==
    /\ v.type = "number" /\ ~v.nan
    /\ StatedOptionRange(k).lo <= v.num
    /\ StatedOptionRange(k).capped => v.num <= StatedOptionRange(k).hi

\* The value is a number below or above the range.
OutsideRange(v, k) ==
    /\ v.type = "number" /\ ~v.nan
    /\ \/ v.num < StatedOptionRange(k).lo
       \/ StatedOptionRange(k).capped /\ v.num > StatedOptionRange(k).hi

\* The value is not a number: of another type, or NaN.
NotANumber(v) == v.type # "number" \/ v.nan

\* Some numeric option is out of its range or is not a number.
RefusedOptions(options) ==
    \E k \in NumericOptionKeys :
        HasValue(options, k) /\ (OutsideRange(options.keys[k], k) \/ NotANumber(options.keys[k]))

\* As RefusedOptions, with NaN taken for a number (its typeof).
RefusedOptionsByTypeof(options) ==
    \E k \in NumericOptionKeys :
        HasValue(options, k) /\ (OutsideRange(options.keys[k], k) \/ options.keys[k].type # "number")

\* Every numeric option given is a number inside its range.
ValidOptions(options) ==
    \A k \in NumericOptionKeys : HasValue(options, k) => InsideRange(options.keys[k], k)

\* C11: every predefined expression of CRON_PATTERNS passes the validator,
\* so CronJob(CRON_PATTERNS.X) with valid options on a method raises no
\* cron-expression error (and no other error than that of a duplicate name).
C11_PatternsAccepted ==
    /\ \A n \in DOMAIN CRON_PATTERNS : ExpressionVerdict[CRON_PATTERNS[n]] = CronOk
    /\ (CronJobApplied /\ cronJobCall.expression \in PatternExpressions) =>
          /\ cronJobThrown # "cron-expression"
          /\ (ValidOptions(cronJobCall.options) /\ cronJobCall.valueType = "function") =>
                cronJobThrown \in {"none", "duplicate-job"}

\* WEEKLY_SUNDAY, whose day of week is the field minimum, was registered.
C11_Witness ==
    /\ CronJobApplied
    /\ cronJobCall.expression = CRON_PATTERNS.WEEKLY_SUNDAY
    /\ cronJobThrown = "none"
    /\ \E i \in 1..Len(getCronJobs("A")) :
          getCronJobs("A")[i].expression = CRON_PATTERNS.WEEKLY_SUNDAY

\* C12: the decorator raises at decoration time and stores no job when a
\* numeric option is out of range (maxConcurrency < 1, timeout < 1, priority
\* < 1 or > 10, retryAttempts < 0, retryDelay < 0) or is not a number, and
\* option validation accepts every value inside the ranges.
C12_OptionRanges ==
    [][CronJobStep =>
         /\ RefusedOptions(cronJobCall'.options) =>
               /\ cronJobThrown' # "none"
               /\ cronJobsMeta' = cronJobsMeta
         /\ ValidOptions(cronJobCall'.options) =>
               cronJobThrown' \notin NumericOptionKeys]_vars

\* What does hold of the option ranges: the statement of C12 for every value
\* but NaN, which the decorator takes for a number and never finds below or
\* above a limit.
OptionRangesByTypeof ==
    [][CronJobStep =>
         /\ RefusedOptionsByTypeof(cronJobCall'.options) =>
               /\ cronJobThrown' # "none"
               /\ cronJobsMeta' = cronJobsMeta
               /\ ExpressionVerdict[cronJobCall'.expression] = CronOk =>
                     cronJobThrown' \in NumericOptionKeys
         /\ ValidOptions(cronJobCall'.options) =>
               cronJobThrown' \notin NumericOptionKeys]_vars

DefaultedKeys ==
    {"enabled", "maxConcurrency", "priority", "retryAttempts", "retryDelay", "runOnInit"}

\* The default each of the six options is documented to have.
StatedDefault(k) ==
    CASE k = "enabled"        -> JsBoolean(TRUE)
      [] k = "maxConcurrency" -> JsNumber(1)
      [] k = "priority"       -> JsNumber(5)
      [] k = "retryAttempts"  -> JsNumber(0)
      [] k = "retryDelay"     -> JsNumber(1000)
      [] k = "runOnInit"      -> JsBoolean(FALSE)

\* The descriptor the step stored: the last of the class's list.
StoredJob == getCronJobsIn(cronJobsMeta', cronJobCall'.cls)[Len(getCronJobsIn(cronJobsMeta', cronJobCall'.cls))]

\* C13: a stored descriptor has, for each of the six options, the default
\* when the caller did not supply it and the caller's value when they did,
\* so none of the six is undefined after a successful decoration.
C13_Defaults ==
    [][(CronJobStep /\ cronJobThrown' = "none") =>
         \A k \in DefaultedKeys :
            /\ (cronJobCall'.options.given /\ cronJobCall'.options.keys[k].type # "absent") =>
                  StoredJob.options[k] = cronJobCall'.options.keys[k]
            /\ ~(cronJobCall'.options.given /\ cronJobCall'.options.keys[k].type # "absent") =>
                  StoredJob.options[k] = StatedDefault(k)
            /\ StoredJob.options[k].type \notin {"undefined", "absent"}]_vars

\* What does hold of the stored options: the statement of C13 for the keys
\* the caller did not set to undefined.
DefaultsUnlessUndefinedGiven ==
    [][(CronJobStep /\ cronJobThrown' = "none") =>
         \A k \in DefaultedKeys :
            /\ (cronJobCall'.options.given /\ cronJobCall'.options.keys[k].type # "absent") =>
                  StoredJob.options[k] = cronJobCall'.options.keys[k]
            /\ ~(cronJobCall'.options.given /\ cronJobCall'.options.keys[k].type # "absent") =>
                  StoredJob.options[k] = StatedDefault(k)
            /\ cronJobCall'.options.keys[k] # JsUndefined =>
                  StoredJob.options[k].type \notin {"undefined", "absent"}]_vars

\* No two descriptors of the class's list have the same name.
UniqueJobNames(c) ==
    \A i, j \in 1..Len(getCronJobs(c)) :
        getCronJobs(c)[i].name = getCronJobs(c)[j].name => i = j

\* C14: applying CronJob to a method whose name is already registered on the
\* class raises and leaves getCronJobs of every class unchanged; after any
\* sequence of applications no two descriptors of getCronJobs(C) share a name.
C14_UniqueJobNames ==
    /\ [][(/\ CronJobStep
           /\ \E i \in 1..Len(getCronJobs(cronJobCall'.cls)) :
                 getCronJobs(cronJobCall'.cls)[i].name = cronJobCall'.propertyKey) =>
             /\ cronJobThrown' # "none"
             /\ \A c \in Classes :
                   getCronJobsIn(cronJobsMeta', c) = getCronJobsIn(cronJobsMeta, c)]_vars
    /\ [](\A c \in Classes : UniqueJobNames(c))

\* A second job of the parent was refused a second time: the name is not the
\* first in the list, and the list keeps its two jobs.
C14_Witness ==
    /\ CronJobApplied
    /\ cronJobThrown = "duplicate-job"
    /\ cronJobCall.cls = "A"
    /\ Len(getCronJobs("A")) = 2
    /\ getCronJobs("A")[2].name = cronJobCall.propertyKey

-----------------------------------------------------------------------------
(* Claims about controllerPlugin (checked under SpecPlugin) *)

\* The plugin runs in this step.
PluginStep == fastify' # fastify

\* The number of fastify.route calls due before those of the c-th controller.
RECURSIVE CallsBefore(_, _)
CallsBefore(controllers, c) ==
    IF c = 1 THEN 0
    ELSE CallsBefore(controllers, c - 1) + Len(getRoutes(controllers[c - 1]))

\* The prefix as stated: the empty string when not provided.
StatedPrefix(options) == IF options.prefix = Undefined THEN <<>> ELSE options.prefix.chars

\* C19: for every controller of options.controllers and every route record
\* getRoutes returns for it, controllerPlugin calls fastify.route exactly
\* once, with the record's method, url = prefix + the record's path (prefix
\* the empty string when not provided) and the handler bound to the
\* container's instance of the controller, in controller order then route
\* order.
C19_RoutesRegistered ==
    [][PluginStep =>
         LET controllers == fastify'.options.controllers
             made        == fastify'.routes
         IN /\ Len(made) = CallsBefore(controllers, Len(controllers) + 1)
            /\ \A c \in 1..Len(controllers) :
                  \A r \in 1..Len(getRoutes(controllers[c])) :
                     LET call  == made[CallsBefore(controllers, c) + r]
                         route == getRoutes(controllers[c])[r]
                     IN /\ call.method = route.method
                        /\ call.url = StatedPrefix(fastify'.options) \o route.path
                        /\ call.handler.name = route.handler
                        /\ call.handler.boundTo = ContainerGet(controllers[c])]_vars

\* The plugin ran without a prefix on the subclass and its parent, two routes
\* each (the subclass's inherited): four calls, the third of them the
\* parent's first route.
C19_Witness ==
    /\ fastify.ran
    /\ fastify.options.prefix = Undefined
    /\ fastify.options.controllers = <<"B", "A">>
    /\ Len(getRoutes("A")) = 2
    /\ Len(fastify.routes) = 4
    /\ fastify.routes[3].url = getRoutes("A")[1].path
    /\ fastify.routes[3].handler.boundTo = ContainerGet("A")

-----------------------------------------------------------------------------
(* Claims about the parameter decorators (checked under SpecParams) *)

\* The elements of a list.
Elements(list) == {list[i] : i \in 1..Len(list)}

\* The parameters of the instance method propertyKey of class c that carry
\* the decorator.
DecoratedIndexes(decorator, c, propertyKey) ==
    {d.parameterIndex : d \in {e \in decorated :
        /\ e.decorator = decorator
        /\ e.target = PrototypeOf(c)
        /\ e.propertyKey = propertyKey}}

\* C20: for every class C and method m of it, getRequestParams(C, m) and
\* getResponseParams(C, m), handed the class, return exactly the indexes of
\* the parameters of m decorated with @Request(), respectively @Response():
\* nothing for a method without such a parameter, and nothing of another
\* method or of the other decorator.
C20_ParamsOfClass ==
    \A c \in Classes, propertyKey \in PropertyKeys :
        /\ Elements(getRequestParams(ClassObject(c), propertyKey))
               = DecoratedIndexes("Request", c, propertyKey)
        /\ Elements(getResponseParams(ClassObject(c), propertyKey))
               = DecoratedIndexes("Response", c, propertyKey)

\* What the code does give: handed the prototype of the class, the object
\* the decorators were handed, the readers return the decorated indexes.
ParamsOfPrototype ==
    \A c \in Classes, propertyKey \in PropertyKeys :
        /\ Elements(getRequestParams(PrototypeOf(c), propertyKey))
               = DecoratedIndexes("Request", c, propertyKey)
        /\ Elements(getResponseParams(PrototypeOf(c), propertyKey))
               = DecoratedIndexes("Response", c, propertyKey)

\* Handed the class, the readers return what is stored on Function: the
\* indexes decorated on the static methods of that name of every class.
ParamsOfClassAreStatics ==
    \A c \in Classes, propertyKey \in PropertyKeys :
        /\ Elements(getRequestParams(ClassObject(c), propertyKey))
               = {d.parameterIndex : d \in {e \in decorated :
                    /\ e.decorator = "Request"
                    /\ e.target \in {ClassObject(k) : k \in Classes}
                    /\ e.propertyKey = propertyKey}}
        /\ Elements(getResponseParams(ClassObject(c), propertyKey))
               = {d.parameterIndex : d \in {e \in decorated :
                    /\ e.decorator = "Response"
                    /\ e.target \in {ClassObject(k) : k \in Classes}
                    /\ e.propertyKey = propertyKey}}

\* class A { m1(@Request() req) {} }: getRequestParams(A, 'm1') is empty.
C20_FailingInput ==
    /\ decorated = {Decoration("Request", PrototypeOf("A"), "m1", 0)}
    /\ getRequestParams(ClassObject("A"), "m1") = <<>>
    /\ getRequestParams(PrototypeOf("A"), "m1") = <<0>>

-----------------------------------------------------------------------------
(* Claims about the plugin decorators (checked under SpecHooks) *)

\* The applications of a hook decorator to methods of class c that did not
\* throw, in the order they were made.
AppliedTo(decorator, c) ==
    SelectSeq(hookLog, LAMBDA call :
        call.decorator = decorator /\ call.class = c /\ ~call.threw)

\* One record per such application, in that order.
RecordsOf(decorator, hookName, c) ==
    [i \in 1..Len(AppliedTo(decorator, c)) |->
        HookMetadata(hookName, AppliedTo(decorator, c)[i].propertyKey)]

\* The statement of C21 for one class.
PluginAndHooksOf(c) ==
    /\ isPlugin(c) <=> pluginMeta[c].defined
    /\ pluginMeta[c].defined => getPluginMetadata(c) = pluginMeta[c]
    /\ getBeforeRequestHooks(c) = RecordsOf("BeforeRequest", "onRequest", c)
    /\ getAfterRequestHooks(c) = RecordsOf("AfterRequest", "onResponse", c)

\* C21: isPlugin(C) is true exactly when Plugin was applied to C, and
\* getPluginMetadata(C) is then the options given; getBeforeRequestHooks(C)
\* and getAfterRequestHooks(C) hold one record, with hook name onRequest
\* respectively onResponse, for each method of C decorated with
\* BeforeRequest respectively AfterRequest, in decoration order, and nothing
\* else: the empty list for a class with no such decoration.
C21_PluginAndHooks == \A c \in Classes : PluginAndHooksOf(c)

\* What does hold: the statement for a class when neither the class it
\* extends nor a class extending it was decorated.
PluginAndHooksOfLoneClass ==
    \A c \in Classes :
        (\A other \in Classes \ {c} :
            /\ ~pluginMeta[other].defined
            /\ \A i \in 1..Len(hookLog) : hookLog[i].class # other)
        => PluginAndHooksOf(c)

\* @Plugin() class A { @BeforeRequest() m1() {} }
\* class B extends A { @BeforeRequest() m2() {} }
C21_FailingInput ==
    /\ pluginMeta["A"].defined /\ ~pluginMeta["B"].defined
    /\ hookLog = <<HookCallOf("BeforeRequest", "A", "m1", "function", FALSE),
                   HookCallOf("BeforeRequest", "B", "m2", "function", FALSE)>>
    /\ isPlugin("B")
    /\ getBeforeRequestHooks("A")
           = <<HookMetadata("onRequest", "m1"), HookMetadata("onRequest", "m2")>>

\* No two records of a list of hooks name the same handler.
UniqueHandlers(hooks) ==
    \A i, j \in 1..Len(hooks) : hooks[i].handler = hooks[j].handler => i = j

\* C23: after any sequence of applications of BeforeRequest and AfterRequest
\* no two records of getBeforeRequestHooks(C), and no two records of
\* getAfterRequestHooks(C), have the same handler name.
C23_UniqueHandlers ==
    \A c \in Classes :
        /\ UniqueHandlers(getBeforeRequestHooks(c))
        /\ UniqueHandlers(getAfterRequestHooks(c))

\* class A { @BeforeRequest() m1() {} }
\* class B extends A { @BeforeRequest() m1() {} }
C23_FailingInput ==
    /\ hookLog = <<HookCallOf("BeforeRequest", "A", "m1", "function", FALSE),
                   HookCallOf("BeforeRequest", "B", "m1", "function", FALSE)>>
    /\ getBeforeRequestHooks("B")
           = <<HookMetadata("onRequest", "m1"), HookMetadata("onRequest", "m1")>>

\* class A { @AfterRequest() @AfterRequest() m2() {} }
FailingInputOneClass ==
    /\ hookLog = <<HookCallOf("AfterRequest", "A", "m2", "function", FALSE),
                   HookCallOf("AfterRequest", "A", "m2", "function", FALSE)>>
    /\ getAfterRequestHooks("A")
           = <<HookMetadata("onResponse", "m2"), HookMetadata("onResponse", "m2")>>

\* This step is an application of a hook decorator; the last entry of
\* hookLog' holds its arguments.
HookApplied == Len(hookLog') = Len(hookLog) + 1

\* The step leaves both hook lists of class c as they were.
HooksUntouched(c) ==
    \A key \in HookKeys :
        HooksIn(hooksMeta', hookArrays', key, c) = HooksIn(hooksMeta, hookArrays, key, c)

\* C29: applying BeforeRequest or AfterRequest to a method of a class leaves
\* getBeforeRequestHooks and getAfterRequestHooks of every other class
\* unchanged, also of the class it extends.
C29_HooksPerClass ==
    [][HookApplied =>
          \A c \in Classes \ {hookLog'[Len(hookLog')].class} : HooksUntouched(c)]_vars

\* What does hold: when the array the decorator finds for the decorated
\* class is owned by no other class, the lists of the other classes are
\* unchanged, a class aside that extends the decorated one and owns no list.
HooksPerClassWithoutSharedArray ==
    [][HookApplied =>
          LET call == hookLog'[Len(hookLog')]
              key == IF call.decorator = "BeforeRequest"
                     THEN BEFORE_REQUEST_HOOK_KEY ELSE AFTER_REQUEST_HOOK_KEY
              found == ReflectGetMetadata(hooksMeta[key], call.class)
          IN (~found.defined \/ \A c \in Classes \ {call.class} : hooksMeta[key][c] # found)
             => \A c \in Classes \ {call.class} :
                    (ParentOf(c) # call.class \/ hooksMeta[key][c].defined)
                    => HooksUntouched(c)]_vars

\* class A { @AfterRequest() m1() {} }
\* class B extends A { @AfterRequest() m2() {} }: A shows B's hook.
C29_FailingInput ==
    /\ hookLog = <<HookCallOf("AfterRequest", "A", "m1", "function", FALSE),
                   HookCallOf("AfterRequest", "B", "m2", "function", FALSE)>>
    /\ getAfterRequestHooks("A")
           = <<HookMetadata("onResponse", "m1"), HookMetadata("onResponse", "m2")>>
    /\ hooksMeta[AFTER_REQUEST_HOOK_KEY]["A"] = hooksMeta[AFTER_REQUEST_HOOK_KEY]["B"]

====
